---- MODULE Spec2Model ----
(***************************************************************************)
(* Template-driven tracklist parser of youtube-bootlegger                  *)
(* (src/src/youtube_bootlegger/core/template_parser.py).                   *)
(*                                                                         *)
(* A Python str is modelled as a sequence of one-character strings, so     *)
(* that strip, split, substring containment, escaping and replacement are  *)
(* computed the way the code computes them.  Formatted messages are        *)
(* sequences of string chunks (a chunk is a literal piece of the f-string  *)
(* or one character).                                                      *)
(***************************************************************************)
EXTENDS Integers, Sequences, FiniteSets, TLC

\* ------------------------------------------------------------------------
\* Bounds of the model
\* ------------------------------------------------------------------------
MaxLines == 3

\* the most parts a template of the validation runs is made of
MaxParts == 4

\* the largest line number parse_line is called with directly
MaxLineNumber == 2

\* the largest two-digit seconds field of the lines parse_line is applied to
MaxSecondsField == 99

\* ------------------------------------------------------------------------
\* State
\* ------------------------------------------------------------------------
\* the submission flow: which user interface runs ("widget", "qml", or
\* "none"), the error texts it shows, the job it started (None before), the
\* calls of the parser functions made by the latest handler, and one call
\* made by an earlier handler
VARIABLES flow, shown, job, last_calls, probe

\* AudioSplitter.split: its tracks argument, where the call stands ("idle",
\* "running", "returned", or the exception that left it), the output_files
\* list, and the ffmpeg commands run so far
VARIABLES split_tracks, split_status, output_files, commands

sessionVars == <<flow, shown, job, last_calls, probe>>

splitVars == <<split_tracks, split_status, output_files, commands>>

\* ------------------------------------------------------------------------
\* Python str primitives
\* ------------------------------------------------------------------------
Digits == <<"0", "1", "2", "3", "4", "5", "6", "7", "8", "9">>

IsDigit(c) == \E d \in 1..10 : Digits[d] = c

DigitVal(c) == (CHOOSE d \in 1..10 : Digits[d] = c) - 1

IsSpace(c) == c \in {" ", "\t", "\n", "\r", "\f"}

IsAlpha(c) == c \in {"a", "b", "c", "d", "e", "f", "g", "h", "i", "j", "k", "l", "m",
                     "n", "o", "p", "q", "r", "s", "t", "u", "v", "w", "x", "y", "z",
                     "A", "B", "C", "D", "E", "F", "G", "H", "I", "J", "K", "L", "M",
                     "N", "O", "P", "Q", "R", "S", "T", "U", "V", "W", "X", "Y", "Z"}

IsBlankStr(s) == \A i \in 1..Len(s) : IsSpace(s[i])

\* a sequence given as a function, as the tuple of its values
AsTuple(f) == <<>> \o f

\* a local assignment  v = <value>  followed by the statements that use v
With(v, rest(_)) == rest(v)

\* str.strip(): from the first to the last non-whitespace character
Strip(s) ==
    With({i \in 1..Len(s) : ~IsSpace(s[i])}, LAMBDA keep :
        IF keep = {} THEN <<>>
        ELSE SubSeq(s, CHOOSE i \in keep : \A j \in keep : i <= j,
                       CHOOSE i \in keep : \A j \in keep : j <= i))

\* does  sub  occur in  s  at index  i
OccursAt(s, sub, i) ==
    /\ i >= 1
    /\ i + Len(sub) - 1 <= Len(s)
    /\ \A k \in 1..Len(sub) : s[i + k - 1] = sub[k]

\* Python:  sub in s
Contains(s, sub) == \E i \in 1..(Len(s) + 1) : OccursAt(s, sub, i)

\* str.split(sep) for a one-character separator
Split(s, sep) ==
    With({i \in 1..Len(s) : s[i] = sep}, LAMBDA seps :
    \* cut[k + 1]: position of the k-th separator; 0 before the first piece,
    \* Len(s) + 1 after the last
    With(AsTuple([k \in 1..(Cardinality(seps) + 2) |->
             IF k = 1 THEN 0
             ELSE IF k = Cardinality(seps) + 2 THEN Len(s) + 1
             ELSE CHOOSE i \in seps : Cardinality({j \in seps : j < i}) = k - 2]),
         LAMBDA cut :
        AsTuple([k \in 1..(Cardinality(seps) + 1) |->
            SubSeq(s, cut[k] + 1, cut[k + 1] - 1)])))

\* str.replace(old, new): leftmost non-overlapping occurrences, old # ""
RECURSIVE ReplaceFrom(_, _, _, _)
ReplaceFrom(s, old, new, i) ==
    With({j \in i..Len(s) : OccursAt(s, old, j)}, LAMBDA occ :
        IF occ = {} THEN SubSeq(s, i, Len(s))
        ELSE With(CHOOSE a \in occ : \A b \in occ : a <= b, LAMBDA j :
                 SubSeq(s, i, j - 1) \o new \o ReplaceFrom(s, old, new, j + Len(old))))

Replace(s, old, new) == ReplaceFrom(s, old, new, 1)

\* sep.join(parts)
RECURSIVE Join(_, _)
Join(parts, sep) ==
    IF parts = <<>> THEN <<>>
    ELSE IF Len(parts) = 1 THEN parts[1]
    ELSE parts[1] \o sep \o Join(Tail(parts), sep)

RECURSIVE Flatten(_)
Flatten(ss) == IF ss = <<>> THEN <<>> ELSE Head(ss) \o Flatten(Tail(ss))

\* str(n) for n >= 0
RECURSIVE IntToStr(_)
IntToStr(n) ==
    IF n < 10 THEN <<Digits[n + 1]>>
    ELSE IntToStr(n \div 10) \o <<Digits[(n % 10) + 1]>>

\* f"{n:02d}"
Fmt02d(n) == IF n < 10 THEN <<"0">> \o IntToStr(n) ELSE IntToStr(n)

RECURSIVE DigitsToInt(_, _)
DigitsToInt(s, acc) ==
    IF s = <<>> THEN acc ELSE DigitsToInt(Tail(s), acc * 10 + DigitVal(Head(s)))

\* int(s): surrounding whitespace and one sign are accepted, then digits only
IntBody(s) ==
    LET t == Strip(s)
    IN  IF t # <<>> /\ Head(t) \in {"+", "-"} THEN Tail(t) ELSE t

IntRaises(s) ==
    With(IntBody(s), LAMBDA body :
        \/ body = <<>>
        \/ \E i \in 1..Len(body) : ~IsDigit(body[i]))

IntOf(s) ==
    With(Strip(s), LAMBDA t :
    With(DigitsToInt(IntBody(s), 0), LAMBDA v :
        IF t # <<>> /\ Head(t) = "-" THEN 0 - v ELSE v))

\* Optional values: None is the empty tuple, a set value is a 1-tuple
None == <<>>

Some(v) == <<v>>

IsNone(o) == o = <<>>

Get(o) == o[1]

\* ------------------------------------------------------------------------
\* The regular-expression engine behind re.compile / Pattern.match, for the
\* pattern syntax the templates of this model exercise: literals, escapes
\* (\d, \s, escaped punctuation), '.', '^', '$', groups '(?:...)',
\* '(?P<name>...)' and '(...)', and the quantifiers * + ? {m} {m,n} with
\* their lazy forms.  Anything else is reported as "unsupported".
\* ------------------------------------------------------------------------
\* _sre.MAXREPEAT (4294967295) as a decimal string
MAXREPEAT == <<"4", "2", "9", "4", "9", "6", "7", "2", "9", "5">>

RECURSIVE DropZeros(_)
DropZeros(s) == IF Len(s) > 1 /\ Head(s) = "0" THEN DropZeros(Tail(s)) ELSE s

\* a >= b for decimal strings
RECURSIVE LexGE(_, _)
LexGE(a, b) ==
    IF a = <<>> THEN TRUE
    ELSE IF DigitVal(Head(a)) # DigitVal(Head(b)) THEN DigitVal(Head(a)) > DigitVal(Head(b))
    ELSE LexGE(Tail(a), Tail(b))

NumGE(a, b) ==
    With(DropZeros(a), LAMBDA x :
    With(DropZeros(b), LAMBDA y :
        IF Len(x) # Len(y) THEN Len(x) > Len(y) ELSE LexGE(x, y)))

Node(t, c, name, body, lo, hi, greedy) ==
    [t |-> t, c |-> c, name |-> name, body |-> body, lo |-> lo, hi |-> hi, greedy |-> greedy]

Leaf(t, c) == Node(t, c, <<>>, <<>>, 0, None, TRUE)

PRes(err, nodes, next, names) ==
    [err |-> err, nodes |-> nodes, next |-> next, names |-> names]

\* the first index >= i that holds no digit
DigitRunEnd(p, i) ==
    With({j \in i..Len(p) : ~IsDigit(p[j])}, LAMBDA stop :
        IF stop = {} THEN (IF i > Len(p) THEN i ELSE Len(p) + 1)
        ELSE CHOOSE a \in stop : \A b \in stop : a <= b)

\* the first index >= i that holds c, or 0
IndexOf(p, c, i) ==
    With({j \in i..Len(p) : p[j] = c}, LAMBDA at :
        IF at = {} THEN 0 ELSE CHOOSE a \in at : \A b \in at : a <= b)

\* the repeat operator starting at p[j], if any:
\* [has, err, lo, hi, next]  (next = index after the operator)
NoQuant(j) == [has |-> FALSE, err |-> "", lo |-> 0, hi |-> None, next |-> j]

\* the bounds of a brace quantifier: \d+ is read as a number and checked
\* against MAXREPEAT, then max against min
BraceBounds(lo, hi, next) ==
    IF lo # <<>> /\ NumGE(lo, MAXREPEAT)
    THEN [has |-> TRUE, err |-> "OverflowError", lo |-> 0, hi |-> None, next |-> next]
    ELSE IF hi # <<>> /\ NumGE(hi, MAXREPEAT)
    THEN [has |-> TRUE, err |-> "OverflowError", lo |-> 0, hi |-> None, next |-> next]
    ELSE IF lo # <<>> /\ hi # <<>> /\ ~NumGE(hi, lo)
    THEN [has |-> TRUE, err |-> "re.error", lo |-> 0, hi |-> None, next |-> next]
    ELSE [has |-> TRUE, err |-> "",
          lo |-> IF lo # <<>> THEN DigitsToInt(lo, 0) ELSE 0,
          hi |-> IF hi # <<>> THEN Some(DigitsToInt(hi, 0)) ELSE None,
          next |-> next]

BraceQuant(p, j) ==
    With(DigitRunEnd(p, j + 1), LAMBDA a :
    With(a <= Len(p) /\ p[a] = ",", LAMBDA com :
    With(IF com THEN DigitRunEnd(p, a + 1) ELSE a, LAMBDA b :
        IF j + 1 <= Len(p) /\ p[j + 1] = "}" THEN NoQuant(j)
        ELSE IF ~(b <= Len(p) /\ p[b] = "}") THEN NoQuant(j)
        ELSE BraceBounds(SubSeq(p, j + 1, a - 1),
                         IF com THEN SubSeq(p, a + 1, b - 1) ELSE SubSeq(p, j + 1, a - 1),
                         b + 1))))

QuantAt(p, j) ==
    IF j > Len(p) THEN NoQuant(j)
    ELSE IF p[j] = "*" THEN [has |-> TRUE, err |-> "", lo |-> 0, hi |-> None, next |-> j + 1]
    ELSE IF p[j] = "+" THEN [has |-> TRUE, err |-> "", lo |-> 1, hi |-> None, next |-> j + 1]
    ELSE IF p[j] = "?" THEN [has |-> TRUE, err |-> "", lo |-> 0, hi |-> Some(1), next |-> j + 1]
    ELSE IF p[j] = "{" THEN BraceQuant(p, j)
    ELSE NoQuant(j)

\* the repeat operator after an item, with its lazy suffix:
\* [has, err, lo, hi, greedy, next]
ParseQuant(p, j) ==
    With(QuantAt(p, j), LAMBDA q :
    With(q.next <= Len(p) /\ p[q.next] = "?", LAMBDA lazy :
    With(IF lazy THEN q.next + 1 ELSE q.next, LAMBDA k :
    With(QuantAt(p, k), LAMBDA q2 :
        IF ~q.has \/ q.err # ""
        THEN [has |-> q.has, err |-> q.err, lo |-> q.lo, hi |-> q.hi,
              greedy |-> TRUE, next |-> q.next]
        ELSE IF ~lazy /\ q.next <= Len(p) /\ p[q.next] = "+"
        THEN [has |-> TRUE, err |-> "unsupported", lo |-> 0, hi |-> None,
              greedy |-> TRUE, next |-> k]
        ELSE IF q2.has
        THEN [has |-> TRUE, err |-> IF q2.err = "OverflowError" THEN q2.err ELSE "re.error",
              lo |-> 0, hi |-> None, greedy |-> TRUE, next |-> k]
        ELSE [has |-> TRUE, err |-> "", lo |-> q.lo, hi |-> q.hi,
              greedy |-> ~lazy, next |-> k]))))

IsIdentifier(s) ==
    /\ s # <<>>
    /\ IsAlpha(s[1]) \/ s[1] = "_"
    /\ \A i \in 1..Len(s) : IsAlpha(s[i]) \/ IsDigit(s[i]) \/ s[i] = "_"

InSeq(x, xs) == \E i \in 1..Len(xs) : xs[i] = x

RECURSIVE ParseSeq(_, _, _)
RECURSIVE ParseAtom(_, _, _)
RECURSIVE ParseGroup(_, _, _)

\* one group, p[i] = "("
ParseGroup(p, i, names) ==
    With(OccursAt(p, <<"?", ":">>, i + 1), LAMBDA noncap :
    With(OccursAt(p, <<"?", "P", "<">>, i + 1), LAMBDA named :
    With(IndexOf(p, ">", i + 4), LAMBDA gt :
    With(IF noncap THEN <<>>
         ELSE IF named /\ gt > 0 THEN SubSeq(p, i + 4, gt - 1)
         ELSE IntToStr(Len(names) + 1), LAMBDA name :
        IF named /\ (gt = 0 \/ ~IsIdentifier(name)) THEN PRes("re.error", <<>>, i, names)
        ELSE IF named /\ InSeq(name, names) THEN PRes("re.error", <<>>, i, names)
        ELSE IF ~noncap /\ ~named /\ i + 1 <= Len(p) /\ p[i + 1] = "?"
        THEN PRes("unsupported", <<>>, i, names)
        ELSE With(ParseSeq(p,
                           IF noncap THEN i + 3 ELSE IF named THEN gt + 1 ELSE i + 1,
                           IF noncap THEN names ELSE Append(names, name)), LAMBDA b :
                 IF b.err # "" THEN b
                 ELSE IF b.next > Len(p) THEN PRes("re.error", <<>>, b.next, b.names)
                 ELSE PRes("", <<Node("grp", IF noncap THEN "n" ELSE "c", name, b.nodes,
                                      0, None, TRUE)>>,
                           b.next + 1, b.names))))))

\* one item without its repeat operator
ParseAtom(p, i, names) ==
    With(p[i], LAMBDA c :
        IF c = "\\" THEN
            IF i = Len(p) THEN PRes("re.error", <<>>, i, names)
            ELSE IF p[i + 1] = "d" THEN PRes("", <<Leaf("digit", "")>>, i + 2, names)
            ELSE IF p[i + 1] = "s" THEN PRes("", <<Leaf("space", "")>>, i + 2, names)
            ELSE IF IsAlpha(p[i + 1]) \/ IsDigit(p[i + 1])
                 THEN PRes("unsupported", <<>>, i, names)
            ELSE PRes("", <<Leaf("lit", p[i + 1])>>, i + 2, names)
        ELSE IF c = "." THEN PRes("", <<Leaf("any", "")>>, i + 1, names)
        ELSE IF c = "^" THEN PRes("", <<Leaf("bol", "")>>, i + 1, names)
        ELSE IF c = "$" THEN PRes("", <<Leaf("eol", "")>>, i + 1, names)
        ELSE IF c \in {"*", "+", "?"} THEN PRes("re.error", <<>>, i, names)
        ELSE IF c = "{" THEN
            With(BraceQuant(p, i), LAMBDA q :
                IF q.has
                THEN PRes(IF q.err = "OverflowError" THEN "OverflowError" ELSE "re.error",
                          <<>>, i, names)
                ELSE PRes("", <<Leaf("lit", c)>>, i + 1, names))
        ELSE IF c \in {"[", "|"} THEN PRes("unsupported", <<>>, i, names)
        ELSE IF c = "(" THEN ParseGroup(p, i, names)
        ELSE PRes("", <<Leaf("lit", c)>>, i + 1, names))

\* items up to the end of the pattern or the next unmatched ")"
ParseSeq(p, i, names) ==
    IF i > Len(p) \/ p[i] = ")" THEN PRes("", <<>>, i, names)
    ELSE With(ParseAtom(p, i, names), LAMBDA a :
         IF a.err # "" THEN a
         ELSE With(ParseQuant(p, a.next), LAMBDA q :
              IF q.err # "" THEN PRes(q.err, <<>>, q.next, a.names)
              ELSE With(ParseSeq(p, q.next, a.names), LAMBDA rest :
                   IF rest.err # "" THEN rest
                   ELSE PRes("",
                             <<IF q.has
                               THEN Node("rep", "", <<>>, a.nodes, q.lo, q.hi, q.greedy)
                               ELSE a.nodes[1]>> \o rest.nodes,
                             rest.next, rest.names))))

\* re.compile(p): err is "" on success, else the exception class raised
ReCompile(p) ==
    With(ParseSeq(p, 1, <<>>), LAMBDA r :
        IF r.err # "" THEN [err |-> r.err, nodes |-> <<>>, names |-> <<>>]
        ELSE IF r.next <= Len(p) THEN [err |-> "re.error", nodes |-> <<>>, names |-> <<>>]
        ELSE [err |-> "", nodes |-> r.nodes, names |-> r.names])

\* --- matching: every way to match, in the order backtracking tries them ---
MRes(pos, caps) == [pos |-> pos, caps |-> caps]

\* does the one-character item n match the character c
LeafOk(n, c) ==
    IF n.t = "lit" THEN c = n.c
    ELSE IF n.t = "digit" THEN IsDigit(c)
    ELSE IF n.t = "space" THEN IsSpace(c)
    ELSE c # "\n"

\* a repeated one-character item: the run of matching characters at pos is
\* taken longest-first (greedy) or shortest-first (lazy), within lo..hi
LeafRep(inner, lo, hi, greedy, s, pos, caps) ==
    With({j \in pos..Len(s) : ~LeafOk(inner, s[j])}, LAMBDA bad :
    With(IF bad = {} THEN (IF pos > Len(s) THEN pos ELSE Len(s) + 1)
         ELSE CHOOSE a \in bad : \A b \in bad : a <= b, LAMBDA stop :
    With(IF IsNone(hi) \/ Get(hi) > stop - pos THEN stop - pos ELSE Get(hi), LAMBDA top :
        AsTuple([j \in 1..(IF top >= lo THEN top - lo + 1 ELSE 0) |->
            MRes(IF greedy THEN pos + top - (j - 1) ELSE pos + lo + (j - 1), caps)]))))

RECURSIVE MNode(_, _, _, _)
RECURSIVE MSeq(_, _, _, _, _)
RECURSIVE MRep(_, _, _, _, _, _, _)

MNode(n, s, pos, caps) ==
    IF n.t = "lit" THEN
        IF pos <= Len(s) /\ s[pos] = n.c THEN <<MRes(pos + 1, caps)>> ELSE <<>>
    ELSE IF n.t = "digit" THEN
        IF pos <= Len(s) /\ IsDigit(s[pos]) THEN <<MRes(pos + 1, caps)>> ELSE <<>>
    ELSE IF n.t = "space" THEN
        IF pos <= Len(s) /\ IsSpace(s[pos]) THEN <<MRes(pos + 1, caps)>> ELSE <<>>
    ELSE IF n.t = "any" THEN
        IF pos <= Len(s) /\ s[pos] # "\n" THEN <<MRes(pos + 1, caps)>> ELSE <<>>
    ELSE IF n.t = "bol" THEN
        IF pos = 1 THEN <<MRes(pos, caps)>> ELSE <<>>
    ELSE IF n.t = "eol" THEN
        IF pos = Len(s) + 1 \/ (pos = Len(s) /\ s[pos] = "\n")
        THEN <<MRes(pos, caps)>> ELSE <<>>
    ELSE IF n.t = "grp" THEN
        With(MSeq(n.body, 1, s, pos, caps), LAMBDA rs :
            IF n.name = <<>> THEN rs
            ELSE AsTuple([k \in 1..Len(rs) |->
                    MRes(rs[k].pos,
                         Append(rs[k].caps,
                                [name |-> n.name, val |-> SubSeq(s, pos, rs[k].pos - 1)]))]))
    ELSE MRep(n.body[1], n.lo, n.hi, n.greedy, s, pos, caps)

MSeq(nodes, k, s, pos, caps) ==
    IF k > Len(nodes) THEN <<MRes(pos, caps)>>
    ELSE With(MNode(nodes[k], s, pos, caps), LAMBDA rs :
             Flatten(AsTuple([j \in 1..Len(rs) |->
                                MSeq(nodes, k + 1, s, rs[j].pos, rs[j].caps)])))

MRep(inner, lo, hi, greedy, s, pos, caps) ==
    IF inner.t \in {"lit", "digit", "space", "any"}
    THEN LeafRep(inner, lo, hi, greedy, s, pos, caps)
    ELSE
    With(IF ~IsNone(hi) /\ Get(hi) = 0 THEN <<>> ELSE MNode(inner, s, pos, caps), LAMBDA rs :
    With(Flatten(AsTuple([j \in 1..Len(rs) |->
             IF rs[j].pos = pos /\ lo = 0 THEN <<>>
             ELSE MRep(inner,
                       IF lo > 0 THEN lo - 1 ELSE 0,
                       IF IsNone(hi) THEN None ELSE Some(Get(hi) - 1),
                       greedy, s, rs[j].pos, rs[j].caps)])), LAMBDA more :
    With(IF lo = 0 THEN <<MRes(pos, caps)>> ELSE <<>>, LAMBDA stop :
        IF greedy THEN more \o stop ELSE stop \o more)))

\* Pattern.match(s): the first complete match, or None
ReMatch(nodes, s) ==
    With(MSeq(nodes, 1, s, 1, <<>>), LAMBDA rs :
        IF rs = <<>> THEN None ELSE Some(rs[1]))

\* the value of the named group in a match: the last capture made, or None
RECURSIVE LastCap(_, _, _)
LastCap(caps, name, k) ==
    IF k = 0 THEN None
    ELSE IF caps[k].name = name THEN Some(caps[k].val)
    ELSE LastCap(caps, name, k - 1)

Group(m, name) == LastCap(m.caps, name, Len(m.caps))

\* re.finditer: the non-overlapping matches of the pattern in s, scanning
\* from index i; each is [start, end, caps] with s[start..end-1] matched
RECURSIVE FindIter(_, _, _)
FindIter(nodes, s, i) ==
    With(AsTuple([j \in 1..(Len(s) + 1) |->
             IF j < i THEN <<>> ELSE MSeq(nodes, 1, s, j, <<>>)]), LAMBDA at :
    With({j \in i..(Len(s) + 1) : at[j] # <<>>}, LAMBDA hits :
        IF hits = {} THEN <<>>
        ELSE With(CHOOSE a \in hits : \A b \in hits : a <= b, LAMBDA j :
             With(at[j][1], LAMBDA m :
                 <<[start |-> j, end |-> m.pos, caps |-> m.caps]>>
                 \o FindIter(nodes, s, IF m.pos = j THEN j + 1 ELSE m.pos)))))

\* re.escape
SpecialChars ==
    {"(", ")", "[", "]", "{", "}", "?", "*", "+", "-", "|", "^", "$", "\\", ".",
     "&", "~", "#", " ", "\t", "\n", "\r", "\f"}

\* re.escape that escapes nothing
ReEscapeNothing(s) == s

\* every special character gets a backslash in front
ReEscape(s) ==
    With({i \in 1..Len(s) : s[i] \in SpecialChars}, LAMBDA special :
    \* out[i]: index in the output of the character s[i]
    With(AsTuple([i \in 1..Len(s) |-> i + Cardinality({j \in special : j <= i})]),
         LAMBDA out :
        AsTuple([k \in 1..(Len(s) + Cardinality(special)) |->
            IF \E i \in 1..Len(s) : out[i] = k
            THEN s[CHOOSE i \in 1..Len(s) : out[i] = k]
            ELSE "\\"])))

\* ------------------------------------------------------------------------
\* template_parser.py: module constants
\* ------------------------------------------------------------------------
PH_SONGNAME == <<"%", "s", "o", "n", "g", "n", "a", "m", "e", "%">>

PH_HH == <<"%", "h", "h", "%">>

PH_MM == <<"%", "m", "m", "%">>

PH_SS == <<"%", "s", "s", "%">>

DEFAULT_TEMPLATE == PH_SONGNAME \o <<" ", "-", " ">> \o PH_MM \o <<":">> \o PH_SS

\* the dict, in insertion order
PLACEHOLDER_PATTERNS ==
    << [placeholder |-> PH_SONGNAME,
        regex |-> <<"(", "?", "P", "<", "s", "o", "n", "g", "n", "a", "m", "e", ">", ".", "+", "?", ")">>],
       [placeholder |-> PH_HH,
        regex |-> <<"(", "?", "P", "<", "h", "h", ">", "\\", "d", "{", "1", ",", "2", "}", ")">>],
       [placeholder |-> PH_MM,
        regex |-> <<"(", "?", "P", "<", "m", "m", ">", "\\", "d", "{", "1", ",", "3", "}", ")">>],
       [placeholder |-> PH_SS,
        regex |-> <<"(", "?", "P", "<", "s", "s", ">", "\\", "d", "{", "2", "}", ")">>] >>

REQUIRED_PLACEHOLDERS == {PH_SONGNAME, PH_MM, PH_SS}

\* re.compile(r"%ignore:(.+?)%")
IGNORE_PATTERN ==
    ReCompile(<<"%", "i", "g", "n", "o", "r", "e", ":", "(", ".", "+", "?", ")", "%">>)

GROUP_SONGNAME == <<"s", "o", "n", "g", "n", "a", "m", "e">>

GROUP_HH == <<"h", "h">>

GROUP_MM == <<"m", "m">>

GROUP_SS == <<"s", "s">>

\* the %ignore:...% occurrences of a template: [full, inner] per occurrence
IgnoreMatches(template) ==
    With(FindIter(IGNORE_PATTERN.nodes, template, 1), LAMBDA ms :
        AsTuple([k \in 1..Len(ms) |->
            [full  |-> SubSeq(template, ms[k].start, ms[k].end - 1),
             inner |-> Get(LastCap(ms[k].caps, <<"1">>, Len(ms[k].caps)))]]))

\* ------------------------------------------------------------------------
\* _compile_template
\* ------------------------------------------------------------------------
\* ignore_replacements: (full_match, "(?:" + ignore_regex + ")") per occurrence
ignore_replacements(template) ==
    With(IgnoreMatches(template), LAMBDA ms :
        AsTuple([k \in 1..Len(ms) |->
            [original    |-> ms[k].full,
             replacement |-> <<"(", "?", ":">> \o ms[k].inner \o <<")">>]]))

\* for placeholder, regex in PLACEHOLDER_PATTERNS.items(): pattern.replace(...)
RECURSIVE ReplacePlaceholders(_, _)
ReplacePlaceholders(pattern, k) ==
    IF k > Len(PLACEHOLDER_PATTERNS) THEN pattern
    ELSE ReplacePlaceholders(
             Replace(pattern, ReEscape(PLACEHOLDER_PATTERNS[k].placeholder),
                     PLACEHOLDER_PATTERNS[k].regex),
             k + 1)

\* for original, replacement in ignore_replacements: pattern.replace(...)
RECURSIVE ReplaceIgnores(_, _, _)
ReplaceIgnores(pattern, reps, k) ==
    IF k > Len(reps) THEN pattern
    ELSE ReplaceIgnores(
             Replace(pattern, ReEscape(reps[k].original), reps[k].replacement),
             reps, k + 1)

\* the text handed to re.compile
PatternText(template) ==
    <<"^">>
    \o ReplaceIgnores(ReplacePlaceholders(ReEscape(template), 1),
                      ignore_replacements(template), 1)
    \o <<"$">>

\* _compile_template with a cache of the compiled pattern that is never
\* renewed: the template of the latest preview is compiled, not the argument
_compile_template_Cached(template) ==
    ReCompile(PatternText(
        IF \E c \in last_calls : c.fn = "preview_parse"
        THEN (CHOOSE c \in last_calls : c.fn = "preview_parse").args[2]
        ELSE template))

\* [err, nodes, names]: err is "" or the exception re.compile raised
_compile_template(template) == ReCompile(PatternText(template))

\* ------------------------------------------------------------------------
\* validate_template
\* ------------------------------------------------------------------------
\* TemplateValidation that keeps no error text
TemplateValidationWithoutError(is_valid, error, missing_placeholders) ==
    [raised |-> "", is_valid |-> is_valid, error |-> None,
     missing_placeholders |-> missing_placeholders]

TemplateValidation(is_valid, error, missing_placeholders) ==
    [raised |-> "", is_valid |-> is_valid, error |-> error,
     missing_placeholders |-> missing_placeholders]

\* an exception leaving validate_template
ValidationRaised(exc) ==
    [raised |-> exc, is_valid |-> FALSE, error |-> None, missing_placeholders |-> <<>>]

\* SortedMissing that reports one missing placeholder at a time
SortedMissingFirstOnly(template) ==
    With(SelectSeq(<<PH_HH, PH_MM, PH_SONGNAME, PH_SS>>,
                   LAMBDA ph : ph \in REQUIRED_PLACEHOLDERS /\ ~Contains(template, ph)),
         LAMBDA all : IF all = <<>> THEN <<>> ELSE <<Head(all)>>)

\* sorted(missing): the required placeholders in string order, filtered
SortedMissing(template) ==
    SelectSeq(<<PH_HH, PH_MM, PH_SONGNAME, PH_SS>>,
              LAMBDA ph : ph \in REQUIRED_PLACEHOLDERS /\ ~Contains(template, ph))

\* the loop over IGNORE_PATTERN.finditer(template), from occurrence k:
\* "" when every inner regex compiles, else the first exception class
RECURSIVE IgnoreCheck(_, _)
IgnoreCheck(ms, k) ==
    IF k > Len(ms) THEN [err |-> "", inner |-> <<>>]
    ELSE With(ReCompile(ms[k].inner), LAMBDA c :
             IF c.err # "" THEN [err |-> c.err, inner |-> ms[k].inner]
             ELSE IgnoreCheck(ms, k + 1))

\* validate_template with the %ignore:...% check ahead of the
\* missing-placeholder check
validate_template_IgnoreFirst(template) ==
    IF template = <<>> \/ Strip(template) = <<>>
    THEN TemplateValidation(FALSE, Some(<<"Template cannot be empty">>), <<>>)
    ELSE With(IgnoreCheck(IgnoreMatches(template), 1), LAMBDA ign :
         IF ign.err = "re.error"
         THEN TemplateValidation(
                  FALSE,
                  Some(<<"Invalid regex in %ignore:">> \o ign.inner \o <<"%: ">>
                       \o <<"{e}">>),
                  <<>>)
         ELSE IF ign.err # "" THEN ValidationRaised(ign.err)
         ELSE With(SortedMissing(template), LAMBDA missing :
              IF missing # <<>>
              THEN TemplateValidation(
                       FALSE,
                       Some(<<"Missing required placeholders: ">>
                            \o Join(missing, <<",", " ">>)),
                       missing)
              ELSE With(_compile_template(template), LAMBDA full :
                   IF full.err = "re.error"
                   THEN TemplateValidation(FALSE,
                                           Some(<<"Invalid template pattern: ", "{e}">>),
                                           <<>>)
                   ELSE IF full.err # "" THEN ValidationRaised(full.err)
                   ELSE TemplateValidation(TRUE, None, <<>>))))

validate_template(template) ==
    IF template = <<>> \/ Strip(template) = <<>>
    THEN TemplateValidation(FALSE, Some(<<"Template cannot be empty">>), <<>>)
    ELSE With(SortedMissing(template), LAMBDA missing :
         IF missing # <<>>
         THEN TemplateValidation(
                  FALSE,
                  Some(<<"Missing required placeholders: ">> \o Join(missing, <<",", " ">>)),
                  missing)
         ELSE With(IgnoreCheck(IgnoreMatches(template), 1), LAMBDA ign :
              IF ign.err = "re.error"
              THEN TemplateValidation(
                       FALSE,
                       Some(<<"Invalid regex in %ignore:">> \o ign.inner \o <<"%: ">>
                            \o <<"{e}">>),
                       <<>>)
              ELSE IF ign.err # "" THEN ValidationRaised(ign.err)
              ELSE With(_compile_template(template), LAMBDA full :
                   IF full.err = "re.error"
                   THEN TemplateValidation(FALSE,
                                           Some(<<"Invalid template pattern: ", "{e}">>),
                                           <<>>)
                   ELSE IF full.err # "" THEN ValidationRaised(full.err)
                   ELSE TemplateValidation(TRUE, None, <<>>))))

\* ------------------------------------------------------------------------
\* parse_line
\* ------------------------------------------------------------------------
ParsedTrack(name, hours, minutes, seconds, line_number) ==
    [raised |-> "", message |-> <<>>, name |-> name, hours |-> hours,
     minutes |-> minutes, seconds |-> seconds, line_number |-> line_number]

LineRaised(exc, message) ==
    [raised |-> exc, message |-> message, name |-> <<>>, hours |-> 0,
     minutes |-> 0, seconds |-> 0, line_number |-> 0]

\* LinePrefix that numbers the lines one too high
LinePrefixOffByOne(line_number) == <<"Line ">> \o IntToStr(line_number + 1) \o <<": ">>

LinePrefix(line_number) == <<"Line ">> \o IntToStr(line_number) \o <<": ">>

total_seconds(t) == t.hours * 3600 + t.minutes * 60 + t.seconds

\* groups.get(name, default): the group's value when the pattern has it
GroupOrDefault(pattern, m, name, default) ==
    IF InSeq(name, pattern.names) THEN Group(m, name) ELSE default

\* ParseTimes with the seconds check off by one: a seconds field of 60 passes
ParseTimesSecondsUpToSixty(pattern, m, songname, hours, line_number) ==
    With(Group(m, GROUP_MM), LAMBDA raw_mm :
    With(Group(m, GROUP_SS), LAMBDA raw_ss :
    IF IsNone(raw_mm) \/ IsNone(raw_ss) THEN LineRaised("TypeError", <<>>)
    ELSE IF IntRaises(Get(raw_mm)) \/ IntRaises(Get(raw_ss))
    THEN LineRaised("ParseError", LinePrefix(line_number) \o <<"Invalid time format">>)
    ELSE With(IntOf(Get(raw_ss)), LAMBDA seconds :
    IF seconds > 60
    THEN LineRaised("ParseError",
                    LinePrefix(line_number) \o <<"Seconds must be less than 60 (got ">>
                    \o IntToStr(seconds) \o <<")">>)
    ELSE ParsedTrack(songname, hours, IntOf(Get(raw_mm)), seconds, line_number))))

\* ParseTimes that also rejects minutes of 60 and more
ParseTimesMinutesBelowSixty(pattern, m, songname, hours, line_number) ==
    With(Group(m, GROUP_MM), LAMBDA raw_mm :
    With(Group(m, GROUP_SS), LAMBDA raw_ss :
    IF IsNone(raw_mm) \/ IsNone(raw_ss) THEN LineRaised("TypeError", <<>>)
    ELSE IF IntRaises(Get(raw_mm)) \/ IntRaises(Get(raw_ss))
    THEN LineRaised("ParseError", LinePrefix(line_number) \o <<"Invalid time format">>)
    ELSE With(IntOf(Get(raw_ss)), LAMBDA seconds :
    IF seconds >= 60
    THEN LineRaised("ParseError",
                    LinePrefix(line_number) \o <<"Seconds must be less than 60 (got ">>
                    \o IntToStr(seconds) \o <<")">>)
    ELSE IF IntOf(Get(raw_mm)) >= 60
    THEN LineRaised("ParseError",
                    LinePrefix(line_number) \o <<"Minutes must be less than 60">>)
    ELSE ParsedTrack(songname, hours, IntOf(Get(raw_mm)), seconds, line_number))))

\* int(groups["mm"]), int(groups["ss"]) and the checks that follow; hours is
\* already converted
ParseTimes(pattern, m, songname, hours, line_number) ==
    IF ~InSeq(GROUP_MM, pattern.names)
    THEN LineRaised("ParseError", LinePrefix(line_number) \o <<"Invalid time format">>)
    ELSE With(Group(m, GROUP_MM), LAMBDA raw_mm :
    IF IsNone(raw_mm) THEN LineRaised("TypeError", <<>>)
    ELSE IF IntRaises(Get(raw_mm))
    THEN LineRaised("ParseError", LinePrefix(line_number) \o <<"Invalid time format">>)
    ELSE IF ~InSeq(GROUP_SS, pattern.names)
    THEN LineRaised("ParseError", LinePrefix(line_number) \o <<"Invalid time format">>)
    ELSE With(Group(m, GROUP_SS), LAMBDA raw_ss :
    IF IsNone(raw_ss) THEN LineRaised("TypeError", <<>>)
    ELSE IF IntRaises(Get(raw_ss))
    THEN LineRaised("ParseError", LinePrefix(line_number) \o <<"Invalid time format">>)
    ELSE With(IntOf(Get(raw_ss)), LAMBDA seconds :
    IF seconds >= 60
    THEN LineRaised("ParseError",
                    LinePrefix(line_number) \o <<"Seconds must be less than 60 (got ">>
                    \o IntToStr(seconds) \o <<")">>)
    ELSE ParsedTrack(songname, hours, IntOf(Get(raw_mm)), seconds, line_number))))

parse_line(line, template, line_number) ==
    With(_compile_template(template), LAMBDA pattern :
    IF pattern.err # "" THEN LineRaised(pattern.err, <<>>)
    ELSE With(ReMatch(pattern.nodes, Strip(line)), LAMBDA match :
    IF IsNone(match)
    THEN LineRaised("ParseError",
                    LinePrefix(line_number) \o <<"Does not match template format">>)
    ELSE With(GroupOrDefault(pattern, Get(match), GROUP_SONGNAME, Some(<<>>)),
              LAMBDA raw_name :
    IF IsNone(raw_name) THEN LineRaised("AttributeError", <<>>)
    ELSE IF Strip(Get(raw_name)) = <<>>
    THEN LineRaised("ParseError", LinePrefix(line_number) \o <<"Song name is empty">>)
    ELSE With(GroupOrDefault(pattern, Get(match), GROUP_HH, None), LAMBDA raw_hh :
    \* groups.get("hh", 0) or 0
    IF IsNone(raw_hh) \/ Get(raw_hh) = <<>>
    THEN ParseTimes(pattern, Get(match), Strip(Get(raw_name)), 0, line_number)
    ELSE IF IntRaises(Get(raw_hh))
    THEN LineRaised("ParseError", LinePrefix(line_number) \o <<"Invalid time format">>)
    ELSE ParseTimes(pattern, Get(match), Strip(Get(raw_name)), IntOf(Get(raw_hh)),
                    line_number)))))

\* ------------------------------------------------------------------------
\* models/track.py: Track
\* ------------------------------------------------------------------------
Track(name, start_seconds, end_seconds) ==
    [name |-> name, start_seconds |-> start_seconds, end_seconds |-> end_seconds]

\* Track.duration: None without an end time, else end_seconds - start_seconds
duration(t) ==
    IF IsNone(t.end_seconds) THEN None
    ELSE Some(Get(t.end_seconds) - t.start_seconds)

\* ------------------------------------------------------------------------
\* parse_tracklist_with_template
\* ------------------------------------------------------------------------
\* what a call of parse_tracklist_with_template leaves: the returned list,
\* or the exception class and its message
StrictReturn(tracks) ==
    [raised |-> "", message |-> <<>>, tracks |-> tracks]

StrictRaise(exc, message) ==
    [raised |-> exc, message |-> message, tracks |-> <<>>]

\* text.strip().split("\n")
SplitLines(text) == Split(Strip(text), "\n")

\* StrictStep with a loop that stops collecting after the first failing line
StrictStepFirstError(acc, r) ==
    IF r.raised = ""
    THEN [acc EXCEPT !.parsed_tracks = Append(@, r)]
    ELSE IF r.raised = "ParseError"
    THEN [acc EXCEPT !.errors = IF @ = <<>> THEN <<r.message>> ELSE @]
    ELSE [acc EXCEPT !.raised = r.raised]

\* one pass of the body of "for i, line in enumerate(lines, 1)":
\* acc is [raised, parsed_tracks, errors], r the outcome of parse_line
StrictStep(acc, r) ==
    IF r.raised = ""
    THEN [acc EXCEPT !.parsed_tracks = Append(@, r)]
    ELSE IF r.raised = "ParseError"
    THEN [acc EXCEPT !.errors = Append(@, r.message)]
    ELSE [acc EXCEPT !.raised = r.raised]

\* StrictLoop that numbers the lines from 0
RECURSIVE StrictLoopFromZero(_, _, _, _)
StrictLoopFromZero(lines, i, template, acc) ==
    IF i > Len(lines) \/ acc.raised # "" THEN acc
    ELSE With(Strip(lines[i]), LAMBDA line :
         IF line = <<>> THEN StrictLoopFromZero(lines, i + 1, template, acc)
         ELSE StrictLoopFromZero(lines, i + 1, template,
                         StrictStep(acc, parse_line(line, template, i - 1))))

RECURSIVE StrictLoop(_, _, _, _)
StrictLoop(lines, i, template, acc) ==
    IF i > Len(lines) \/ acc.raised # "" THEN acc
    ELSE With(Strip(lines[i]), LAMBDA line :
         IF line = <<>> THEN StrictLoop(lines, i + 1, template, acc)
         ELSE StrictLoop(lines, i + 1, template,
                         StrictStep(acc, parse_line(line, template, i))))

\* SortByTotalSeconds that is not stable: tracks with equal times change places
SortByTotalSecondsUnstable(ts) ==
    LET before(j, i) ==
            \/ total_seconds(ts[j]) < total_seconds(ts[i])
            \/ total_seconds(ts[j]) = total_seconds(ts[i]) /\ j > i
        rank(i) == Cardinality({j \in 1..Len(ts) : before(j, i)}) + 1
    IN  AsTuple([k \in 1..Len(ts) |-> ts[CHOOSE i \in 1..Len(ts) : rank(i) = k]])

\* SortByTotalSeconds with the order reversed (latest track first)
SortByTotalSecondsDescending(ts) ==
    LET before(j, i) ==
            \/ total_seconds(ts[j]) > total_seconds(ts[i])
            \/ total_seconds(ts[j]) = total_seconds(ts[i]) /\ j < i
        rank(i) == Cardinality({j \in 1..Len(ts) : before(j, i)}) + 1
    IN  AsTuple([k \in 1..Len(ts) |-> ts[CHOOSE i \in 1..Len(ts) : rank(i) = k]])

\* parsed_tracks.sort(key=lambda t: t.total_seconds): ascending and stable
SortByTotalSeconds(ts) ==
    LET before(j, i) ==
            \/ total_seconds(ts[j]) < total_seconds(ts[i])
            \/ total_seconds(ts[j]) = total_seconds(ts[i]) /\ j < i
        rank(i) == Cardinality({j \in 1..Len(ts) : before(j, i)}) + 1
    IN  AsTuple([k \in 1..Len(ts) |-> ts[CHOOSE i \in 1..Len(ts) : rank(i) = k]])

\* BuildTracks with the end time taken from the track itself, not its successor
BuildTracksOwnEnd(sorted) ==
    AsTuple([i \in 1..Len(sorted) |->
        Track(sorted[i].name,
              total_seconds(sorted[i]),
              IF i < Len(sorted) THEN Some(total_seconds(sorted[i])) ELSE None)])

\* the loop that builds the Track list from the sorted parsed tracks
BuildTracks(sorted) ==
    AsTuple([i \in 1..Len(sorted) |->
        Track(sorted[i].name,
              total_seconds(sorted[i]),
              IF i < Len(sorted) THEN Some(total_seconds(sorted[i + 1])) ELSE None)])

\* StrictFinish that fails only when no line parsed at all
StrictFinishLenient(parsed_tracks, errors) ==
    IF parsed_tracks = <<>>
    THEN StrictRaise("ParseError",
                     IF errors # <<>> THEN Join(errors, <<"\n">>)
                     ELSE <<"No valid tracks found in tracklist">>)
    ELSE StrictReturn(BuildTracks(SortByTotalSeconds(parsed_tracks)))

\* the statements after the line loop: raise the collected errors, or return
\* the sorted tracks with their end times
StrictFinish(parsed_tracks, errors) ==
    IF errors # <<>>
    THEN StrictRaise("ParseError", Join(errors, <<"\n">>))
    ELSE IF parsed_tracks = <<>>
    THEN StrictRaise("ParseError", <<"No valid tracks found in tracklist">>)
    ELSE StrictReturn(BuildTracks(SortByTotalSeconds(parsed_tracks)))

\* parse_tracklist_with_template that looks at the text before the template
parse_tracklist_TextFirst(text, template) ==
    IF text = <<>> \/ Strip(text) = <<>>
    THEN StrictRaise("ParseError", <<"Tracklist is empty">>)
    ELSE With(validate_template(template), LAMBDA validation :
    IF validation.raised # "" THEN StrictRaise(validation.raised, <<>>)
    ELSE IF ~validation.is_valid
    THEN StrictRaise("ParseError", <<"Invalid template: ">> \o Get(validation.error))
    ELSE With(StrictLoop(SplitLines(text), 1, template,
                         [raised |-> "", parsed_tracks |-> <<>>, errors |-> <<>>]),
              LAMBDA loop :
         IF loop.raised # "" THEN StrictRaise(loop.raised, <<>>)
         ELSE StrictFinish(loop.parsed_tracks, loop.errors)))

\* parse_tracklist_with_template without the check for empty text
parse_tracklist_NoEmptyCheck(text, template) ==
    With(validate_template(template), LAMBDA validation :
    IF validation.raised # "" THEN StrictRaise(validation.raised, <<>>)
    ELSE IF ~validation.is_valid
    THEN StrictRaise("ParseError", <<"Invalid template: ">> \o Get(validation.error))
    ELSE With(StrictLoop(SplitLines(text), 1, template,
                         [raised |-> "", parsed_tracks |-> <<>>, errors |-> <<>>]),
              LAMBDA loop :
         IF loop.raised # "" THEN StrictRaise(loop.raised, <<>>)
         ELSE StrictFinish(loop.parsed_tracks, loop.errors)))

parse_tracklist_with_template(text, template) ==
    With(validate_template(template), LAMBDA validation :
    IF validation.raised # "" THEN StrictRaise(validation.raised, <<>>)
    ELSE IF ~validation.is_valid
    THEN StrictRaise("ParseError", <<"Invalid template: ">> \o Get(validation.error))
    ELSE IF text = <<>> \/ Strip(text) = <<>>
    THEN StrictRaise("ParseError", <<"Tracklist is empty">>)
    ELSE With(StrictLoop(SplitLines(text), 1, template,
                         [raised |-> "", parsed_tracks |-> <<>>, errors |-> <<>>]),
              LAMBDA loop :
         IF loop.raised # "" THEN StrictRaise(loop.raised, <<>>)
         ELSE StrictFinish(loop.parsed_tracks, loop.errors)))

\* ------------------------------------------------------------------------
\* preview_parse
\* ------------------------------------------------------------------------
TrackPreview(line_number, name, timestamp, is_valid, error) ==
    [line_number |-> line_number, name |-> name, timestamp |-> timestamp,
     is_valid |-> is_valid, error |-> error]

ParsePreview(tracks, is_valid, error_count, total_lines) ==
    [raised |-> "", tracks |-> tracks, is_valid |-> is_valid,
     error_count |-> error_count, total_lines |-> total_lines]

\* an exception leaving preview_parse
PreviewRaise(exc) ==
    [raised |-> exc, tracks |-> <<>>, is_valid |-> FALSE,
     error_count |-> 0, total_lines |-> 0]

\* InvalidTemplatePreview that does not count the template error
InvalidTemplateUncounted == ParsePreview(<<>>, FALSE, 0, 0)

\* the early return for a template that validate_template rejects
InvalidTemplatePreview == ParsePreview(<<>>, FALSE, 1, 0)

\* EmptyTextPreview that treats empty text as strict mode does
EmptyTextInvalid == ParsePreview(<<>>, FALSE, 0, 0)

\* the early return for empty or whitespace-only text
EmptyTextPreview == ParsePreview(<<>>, TRUE, 0, 0)

\* f"{hours}:{minutes:02d}:{seconds:02d}" when hours > 0, else f"{minutes}:{seconds:02d}"
Timestamp(parsed) ==
    IF parsed.hours > 0
    THEN IntToStr(parsed.hours) \o <<":">> \o Fmt02d(parsed.minutes)
         \o <<":">> \o Fmt02d(parsed.seconds)
    ELSE IntToStr(parsed.minutes) \o <<":">> \o Fmt02d(parsed.seconds)

\* line[:30] + "..." if len(line) > 30 else line
TruncatedName(line) ==
    IF Len(line) > 30 THEN SubSeq(line, 1, 30) \o <<".", ".", ".">> ELSE line

\* PreviewStep that puts the newest entry first
PreviewStepPrepend(acc, line, i, r) ==
    IF r.raised = ""
    THEN [acc EXCEPT !.valid_line_count = @ + 1,
                     !.previews = <<TrackPreview(i, r.name, Timestamp(r), TRUE, None)>> \o @]
    ELSE IF r.raised = "ParseError"
    THEN [acc EXCEPT !.valid_line_count = @ + 1,
                     !.error_count = @ + 1,
                     !.previews = <<TrackPreview(i, TruncatedName(line),
                                                 <<"-", "-", ":", "-", "-">>,
                                                 FALSE, Some(r.message))>> \o @]
    ELSE [acc EXCEPT !.valid_line_count = @ + 1, !.raised = r.raised]

\* one pass of the body of the preview loop for the non-blank stripped line
\* numbered i: acc is [raised, previews, error_count, valid_line_count]
PreviewStep(acc, line, i, r) ==
    IF r.raised = ""
    THEN [acc EXCEPT !.valid_line_count = @ + 1,
                     !.previews = Append(@, TrackPreview(i, r.name, Timestamp(r),
                                                         TRUE, None))]
    ELSE IF r.raised = "ParseError"
    THEN [acc EXCEPT !.valid_line_count = @ + 1,
                     !.error_count = @ + 1,
                     !.previews = Append(@, TrackPreview(i, TruncatedName(line),
                                                         <<"-", "-", ":", "-", "-">>,
                                                         FALSE, Some(r.message)))]
    ELSE [acc EXCEPT !.valid_line_count = @ + 1, !.raised = r.raised]

\* PreviewLoop that counts blank lines as lines too
RECURSIVE PreviewLoopCountingBlank(_, _, _, _)
PreviewLoopCountingBlank(lines, i, template, acc) ==
    IF i > Len(lines) \/ acc.raised # "" THEN acc
    ELSE With(Strip(lines[i]), LAMBDA line :
         IF line = <<>>
         THEN PreviewLoopCountingBlank(lines, i + 1, template,
                                       [acc EXCEPT !.valid_line_count = @ + 1])
         ELSE PreviewLoopCountingBlank(lines, i + 1, template,
                          PreviewStep(acc, line, i, parse_line(line, template, i))))

RECURSIVE PreviewLoop(_, _, _, _)
PreviewLoop(lines, i, template, acc) ==
    IF i > Len(lines) \/ acc.raised # "" THEN acc
    ELSE With(Strip(lines[i]), LAMBDA line :
         IF line = <<>> THEN PreviewLoop(lines, i + 1, template, acc)
         ELSE PreviewLoop(lines, i + 1, template,
                          PreviewStep(acc, line, i, parse_line(line, template, i))))

\* PreviewResult whose validity looks at the line count only
PreviewResultAnyLine(previews, error_count, valid_line_count) ==
    ParsePreview(previews, valid_line_count > 0, error_count, valid_line_count)

\* the ParsePreview built after the loop
PreviewResult(previews, error_count, valid_line_count) ==
    ParsePreview(previews, error_count = 0 /\ valid_line_count > 0,
                 error_count, valid_line_count)

preview_parse(text, template) ==
    With(validate_template(template), LAMBDA validation :
    IF validation.raised # "" THEN PreviewRaise(validation.raised)
    ELSE IF ~validation.is_valid THEN InvalidTemplatePreview
    ELSE IF text = <<>> \/ Strip(text) = <<>> THEN EmptyTextPreview
    ELSE With(PreviewLoop(SplitLines(text), 1, template,
                          [raised |-> "", previews |-> <<>>,
                           error_count |-> 0, valid_line_count |-> 0]),
              LAMBDA loop :
         IF loop.raised # "" THEN PreviewRaise(loop.raised)
         ELSE PreviewResult(loop.previews, loop.error_count, loop.valid_line_count)))

\* ------------------------------------------------------------------------
\* The arguments the calls are applied to
\* ------------------------------------------------------------------------
\* %songname% - %hh%:%mm%:%ss%
T_HOURS ==
    <<"%", "s", "o", "n", "g", "n", "a", "m", "e", "%", " ", "-", " ", "%",
      "h", "h", "%", ":", "%", "m", "m", "%", ":", "%", "s", "s", "%">>

\* %songname%
T_MISSING ==
    <<"%", "s", "o", "n", "g", "n", "a", "m", "e", "%">>

\* %ignore:(%%songname% - %mm%:%ss%
T_BAD_IGNORE ==
    <<"%", "i", "g", "n", "o", "r", "e", ":", "(", "%", "%", "s", "o", "n",
      "g", "n", "a", "m", "e", "%", " ", "-", " ", "%", "m", "m", "%", ":",
      "%", "s", "s", "%">>

\* %ignore:x{4294967295}%%songname% - %mm%:%ss%
T_HUGE_REPEAT ==
    <<"%", "i", "g", "n", "o", "r", "e", ":", "x", "{", "4", "2", "9", "4",
      "9", "6", "7", "2", "9", "5", "}", "%", "%", "s", "o", "n", "g", "n",
      "a", "m", "e", "%", " ", "-", " ", "%", "m", "m", "%", ":", "%", "s",
      "s", "%">>

Templates == {DEFAULT_TEMPLATE, T_HOURS, T_MISSING, <<>>, T_BAD_IGNORE, T_HUGE_REPEAT}

\* B - 3:00
L_B ==
    <<"B", " ", "-", " ", "3", ":", "0", "0">>

\* A - 0:30
L_A ==
    <<"A", " ", "-", " ", "0", ":", "3", "0">>

\* C - 1:75
L_SEC ==
    <<"C", " ", "-", " ", "1", ":", "7", "5">>

\* D - 1:02:03
L_H ==
    <<"D", " ", "-", " ", "1", ":", "0", "2", ":", "0", "3">>

\* the lines a tracklist is made of; the empty one is a blank line
LineSet == {L_B, L_A, L_SEC, L_H, <<>>}

\* the tracklist texts: at most MaxLines lines joined by newlines
Texts ==
    {Join(ls, <<"\n">>) : ls \in UNION {[1..n -> LineSet] : n \in 0..MaxLines}}

\* ------------------------------------------------------------------------
\* State of the parser: the arguments, and what each call left (None before
\* the call); line_number is the number parse_line was called with, 0 before
\* the call. In a submission flow template and text are the contents of the
\* template field and of the tracklist field.
\* ------------------------------------------------------------------------
VARIABLES template, text, line_number, validation, parsed, strict, preview

parserVars == <<template, text, line_number, validation, parsed, strict, preview>>

vars == <<parserVars, sessionVars, splitVars>>

\* ------------------------------------------------------------------------
\* The calls applied to the arguments, one call per behaviour
\* ------------------------------------------------------------------------
\* the error texts of the user interface, none of them shown
NoErrors ==
    [template_error |-> <<>>, tracklist_error |-> <<>>, url_error |-> <<>>,
     dir_error |-> <<>>]

\* no submission flow runs
NoSession ==
    /\ flow = "none"
    /\ shown = NoErrors
    /\ job = None
    /\ last_calls = {}
    /\ probe = None

\* split has not been called
NoSplit ==
    /\ split_tracks = <<>>
    /\ split_status = "idle"
    /\ output_files = <<>>
    /\ commands = <<>>

Init ==
    /\ template \in Templates
    /\ text \in Texts
    /\ line_number = 0
    /\ validation = None
    /\ parsed = None
    /\ strict = None
    /\ preview = None
    /\ NoSession
    /\ NoSplit

\* no call has been applied to the arguments yet
Fresh == validation = None /\ parsed = None /\ strict = None /\ preview = None

ValidateTemplate ==
    /\ Fresh
    /\ validation' = Some(validate_template(template))
    /\ UNCHANGED <<template, text, line_number, parsed, strict, preview>>
    /\ UNCHANGED <<sessionVars, splitVars>>

\* parse_line on the i-th line of the text, numbered i
ParseLine ==
    /\ Fresh
    /\ \E i \in 1..Len(SplitLines(text)) :
           /\ line_number' = i
           /\ parsed' = Some(parse_line(SplitLines(text)[i], template, i))
    /\ UNCHANGED <<template, text, validation, strict, preview>>
    /\ UNCHANGED <<sessionVars, splitVars>>

ParseTracklistWithTemplate ==
    /\ Fresh
    /\ strict' = Some(parse_tracklist_with_template(text, template))
    /\ UNCHANGED <<template, text, line_number, validation, parsed, preview>>
    /\ UNCHANGED <<sessionVars, splitVars>>

PreviewParse ==
    /\ Fresh
    /\ preview' = Some(preview_parse(text, template))
    /\ UNCHANGED <<template, text, line_number, validation, parsed, strict>>
    /\ UNCHANGED <<sessionVars, splitVars>>

Next ==
    \/ ValidateTemplate
    \/ ParseLine
    \/ ParseTracklistWithTemplate
    \/ PreviewParse

Spec == Init /\ [][Next]_vars

\* ------------------------------------------------------------------------
\* The templates validate_template is applied to: every concatenation of at
\* most MaxParts parts, a part being a placeholder, a blank or an
\* %ignore:...% token
\* ------------------------------------------------------------------------
\* %ignore:(%: the inner regex has an unclosed group
IGN_UNCLOSED ==
    <<"%", "i", "g", "n", "o", "r", "e", ":", "(", "%">>

\* %ignore:\d+%: the inner regex compiles
IGN_DIGITS ==
    <<"%", "i", "g", "n", "o", "r", "e", ":", "\\", "d", "+", "%">>

\* %ignore:x{4294967295}%: the repeat count is MAXREPEAT
IGN_HUGE ==
    <<"%", "i", "g", "n", "o", "r", "e", ":", "x", "{", "4", "2", "9", "4",
      "9", "6", "7", "2", "9", "5", "}", "%">>

TemplateParts ==
    {PH_SONGNAME, PH_MM, PH_SS, PH_HH, <<" ">>, IGN_UNCLOSED, IGN_DIGITS, IGN_HUGE}

PartTemplates ==
    {Flatten(ps) : ps \in UNION {[1..n -> TemplateParts] : n \in 0..MaxParts}}

\* validate_template applied to one of the part templates
InitValidate ==
    /\ template \in PartTemplates
    /\ text = <<>>
    /\ line_number = 0
    /\ validation = None
    /\ parsed = None
    /\ strict = None
    /\ preview = None
    /\ NoSession
    /\ NoSplit

NextValidate == ValidateTemplate

SpecValidate == InitValidate /\ [][NextValidate]_vars

\* ------------------------------------------------------------------------
\* The lines and templates parse_line is applied to
\* ------------------------------------------------------------------------
\* %ignore:\d+\.%%songname% - %mm%:%ss%
T_NUMBERED ==
    <<"%", "i", "g", "n", "o", "r", "e", ":", "\\", "d", "+", "\\", ".",
      "%", "%", "s", "o", "n", "g", "n", "a", "m", "e", "%", " ", "-", " ",
      "%", "m", "m", "%", ":", "%", "s", "s", "%">>

\* %ignore:(?P<hh>\d)%%songname% - %mm%:%ss%: the ignore regex has a group
\* named hh
T_HH_DIGIT ==
    <<"%", "i", "g", "n", "o", "r", "e", ":", "(", "?", "P", "<", "h", "h",
      ">", "\\", "d", ")", "%", "%", "s", "o", "n", "g", "n", "a", "m", "e",
      "%", " ", "-", " ", "%", "m", "m", "%", ":", "%", "s", "s", "%">>

\* %ignore:(?P<hh>x)%%songname% - %mm%:%ss%: the group named hh takes a letter
T_HH_LETTER ==
    <<"%", "i", "g", "n", "o", "r", "e", ":", "(", "?", "P", "<", "h", "h",
      ">", "x", ")", "%", "%", "s", "o", "n", "g", "n", "a", "m", "e", "%",
      " ", "-", " ", "%", "m", "m", "%", ":", "%", "s", "s", "%">>

LineTemplates == {DEFAULT_TEMPLATE, T_HOURS, T_NUMBERED, T_HH_DIGIT, T_HH_LETTER}

\* what may stand before the song name
LinePrefixes == {<<>>, <<"1", ".">>, <<"5">>, <<"x">>}

LineNames == {<<"A">>, <<" ">>}

\* an hours field with its colon, or none
LineHours == {<<>>, <<"2", ":">>}

LineMinutes == {<<"0">>, <<"5", "9">>, <<"6", "0">>, <<"1", "2", "0">>}

\* the seconds fields at the edges: 00, 59, 60 and a one-digit field
LineSeconds == {<<"0", "0">>, <<"5", "9">>, <<"6", "0">>, <<"5">>}

\* "<prefix><name> - <hours><minutes>:<seconds>"
LineOf(prefix, name, hours, minutes, seconds) ==
    prefix \o name \o <<" ", "-", " ">> \o hours \o minutes \o <<":">> \o seconds

\* the lines: every seconds field from 00 to MaxSecondsField on a plain
\* line, and every combination of the other parts with the edge seconds
Lines ==
    {LineOf(<<>>, <<"A">>, <<>>, <<"1">>, Fmt02d(s)) : s \in 0..MaxSecondsField}
    \cup
    {LineOf(x[1], x[2], x[3], x[4], x[5]) :
        x \in LinePrefixes \X LineNames \X LineHours \X LineMinutes \X LineSeconds}

\* one line and one template, nothing called yet
InitLine ==
    /\ template \in LineTemplates
    /\ text \in Lines
    /\ line_number = 0
    /\ validation = None
    /\ parsed = None
    /\ strict = None
    /\ preview = None
    /\ NoSession
    /\ NoSplit

\* parse_line on the line, with a line number of the caller's choice
ParseLineNumbered ==
    /\ Fresh
    /\ \E n \in 1..MaxLineNumber :
           /\ line_number' = n
           /\ parsed' = Some(parse_line(text, template, n))
    /\ UNCHANGED <<template, text, validation, strict, preview>>
    /\ UNCHANGED <<sessionVars, splitVars>>

NextLine ==
    \/ ParseLineNumbered
    \/ ParseTracklistWithTemplate

SpecLine == InitLine /\ [][NextLine]_vars

\* ------------------------------------------------------------------------
\* Decorated templates, and the lines parse_line is applied to under them
\* ------------------------------------------------------------------------
\* [%mm%:%ss%] %songname%
T_BRACKET ==
    <<"[", "%", "m", "m", "%", ":", "%", "s", "s", "%", "]", " ", "%", "s",
      "o", "n", "g", "n", "a", "m", "e", "%">>

\* %songname% (%mm%.%ss%)
T_PAREN ==
    <<"%", "s", "o", "n", "g", "n", "a", "m", "e", "%", " ", "(", "%", "m",
      "m", "%", ".", "%", "s", "s", "%", ")">>

\* %songname% | %mm%:%ss%
T_PIPE ==
    <<"%", "s", "o", "n", "g", "n", "a", "m", "e", "%", " ", "|", " ", "%",
      "m", "m", "%", ":", "%", "s", "s", "%">>

LayoutTemplates == {T_BRACKET, T_PAREN, T_PIPE, T_HOURS}

\* the layout of a template with its placeholders filled in
Fill(tpl, name, hh, mm, ss) ==
    Replace(Replace(Replace(Replace(tpl, PH_SONGNAME, name), PH_HH, hh), PH_MM, mm),
            PH_SS, ss)

\* the characters of the decoration that are regex metacharacters
Decoration == {"[", "(", "|", "."}

\* a line with every such character replaced by a letter
Undecorated(s) == AsTuple([i \in 1..Len(s) |-> IF s[i] \in Decoration THEN "x" ELSE s[i]])

LayoutNames == {<<"A">>, <<"7">>}

LayoutMinutes == {<<"3">>, <<"1", "2", "3", "4">>}

LayoutSeconds == {<<"4", "5">>, <<"5">>}

\* what may stand before and after the layout of a line
LayoutExtras == {<<>>, <<"9">>}

\* the lines: each template's layout filled in, as it is and with its
\* decoration replaced, alone and with a character before or after it
LayoutLines ==
    UNION {
        {x[4] \o y \o x[5] :
            y \in {Fill(tpl, x[1], <<"1">>, x[2], x[3]),
                   Undecorated(Fill(tpl, x[1], <<"1">>, x[2], x[3]))}} :
        tpl \in LayoutTemplates,
        x \in LayoutNames \X LayoutMinutes \X LayoutSeconds \X LayoutExtras
              \X LayoutExtras}

\* one line and one decorated template, nothing called yet
InitLayout ==
    /\ template \in LayoutTemplates
    /\ text \in LayoutLines
    /\ line_number = 0
    /\ validation = None
    /\ parsed = None
    /\ strict = None
    /\ preview = None
    /\ NoSession
    /\ NoSplit

NextLayout == ParseLineNumbered

SpecLayout == InitLayout /\ [][NextLayout]_vars

\* ------------------------------------------------------------------------
\* Templates with ignore tokens, and the lines parse_line is applied to
\* under them
\* ------------------------------------------------------------------------
\* %ignore:\d+\.% %songname% - %mm%:%ss%
T_NUMBERED_SPACE ==
    <<"%", "i", "g", "n", "o", "r", "e", ":", "\\", "d", "+", "\\", ".",
      "%", " ", "%", "s", "o", "n", "g", "n", "a", "m", "e", "%", " ", "-",
      " ", "%", "m", "m", "%", ":", "%", "s", "s", "%">>

\* %ignore:%mm%:%ss% %songname%: the text after "%ignore:" runs up to the
\* end of "%mm%"
T_IGNORE_MM ==
    <<"%", "i", "g", "n", "o", "r", "e", ":", "%", "m", "m", "%", ":", "%",
      "s", "s", "%", " ", "%", "s", "o", "n", "g", "n", "a", "m", "e", "%">>

\* %ignore:x%%songname% - %mm%:%ss% %ignore:x%y: the same token twice
T_IGNORE_TWICE ==
    <<"%", "i", "g", "n", "o", "r", "e", ":", "x", "%", "%", "s", "o", "n",
      "g", "n", "a", "m", "e", "%", " ", "-", " ", "%", "m", "m", "%", ":",
      "%", "s", "s", "%", " ", "%", "i", "g", "n", "o", "r", "e", ":", "x",
      "%", "y">>

IgnoreTemplates == {T_NUMBERED, T_NUMBERED_SPACE, T_IGNORE_MM, T_IGNORE_TWICE}

IgnoreLines ==
    {<<"1", ".", " ", "M", "y", " ", "S", "o", "n", "g", " ", "-", " ",
       "3", ":", "4", "5">>,
     <<"1", "2", ".", " ", "A", " ", "-", " ", "0", ":", "3", "0">>,
     <<"1", ".", "A", " ", "-", " ", "0", ":", "3", "0">>,
     <<"%", "i", "g", "n", "o", "r", "e", ":", "3", ":", "4", "5", " ",
       "S", "o", "n", "g">>,
     <<"%", "m", "m", ":", "4", "5", " ", "S", "o", "n", "g">>,
     <<"3", ":", "4", "5", " ", "S", "o", "n", "g">>,
     <<"M", "y", " ", "S", "o", "n", "g", " ", "-", " ", "3", ":", "4", "5">>,
     <<"x", "S", " ", "-", " ", "3", ":", "4", "5", " ", "x", "y">>,
     <<"S", " ", "-", " ", "3", ":", "4", "5", " ", "x", "y">>,
     <<"x", "S", " ", "-", " ", "3", ":", "4", "5">>,
     <<"1", ".", " ", "B", " ", "-", " ", "1", ":", "7", "5">>,
     <<"x", ".", " ", "C", " ", "-", " ", "2", ":", "0", "0">>}

\* one line and one template with ignore tokens, nothing called yet
InitIgnore ==
    /\ template \in IgnoreTemplates
    /\ text \in IgnoreLines
    /\ line_number = 0
    /\ validation = None
    /\ parsed = None
    /\ strict = None
    /\ preview = None
    /\ NoSession
    /\ NoSplit

NextIgnore ==
    \/ ParseLineNumbered
    \/ ValidateTemplate

SpecIgnore == InitIgnore /\ [][NextIgnore]_vars

\* ------------------------------------------------------------------------
\* Tracklists with equal start times, hours fields and three-digit minutes
\* ------------------------------------------------------------------------
\* the greatest number of lines of these tracklists
MaxTimeLines == 3

\* %ignore:(?P<hh>-\d)%%songname% - %mm%:%ss%: the ignore regex has a group
\* named hh that takes a sign and a digit
T_HH_SIGNED ==
    <<"%", "i", "g", "n", "o", "r", "e", ":", "(", "?", "P", "<", "h", "h",
      ">", "-", "\\", "d", ")", "%", "%", "s", "o", "n", "g", "n", "a", "m",
      "e", "%", " ", "-", " ", "%", "m", "m", "%", ":", "%", "s", "s", "%">>

\* each template with lines of its layout: two names at the same time
\* (3:00; 1:00:00 and 0:60:00), a line with hours and 120 minutes, a line
\* with hours 0, a line whose seconds are out of range
TimeCases ==
    {[tpl   |-> DEFAULT_TEMPLATE,
      lines |-> {<<"B", " ", "-", " ", "3", ":", "0", "0">>,
         <<"E", " ", "-", " ", "3", ":", "0", "0">>,
         <<"A", " ", "-", " ", "0", ":", "3", "0">>,
         <<"C", " ", "-", " ", "1", ":", "7", "5">>}],
     [tpl   |-> T_HOURS,
      lines |-> {<<"X", " ", "-", " ", "1", ":", "0", "0", ":", "0", "0">>,
         <<"Y", " ", "-", " ", "0", ":", "6", "0", ":", "0", "0">>,
         <<"G", " ", "-", " ", "1", ":", "1", "2", "0", ":", "0", "3">>,
         <<"H", " ", "-", " ", "0", ":", "0", "2", ":", "0", "3">>}],
     [tpl   |-> T_HH_SIGNED,
      lines |-> {<<"-", "5", "A", " ", "-", " ", "0", ":", "0", "0">>,
         <<"-", "1", "B", " ", "-", " ", "0", ":", "3", "0">>,
         <<"-", "1", "D", " ", "-", " ", "0", ":", "3", "0">>,
         <<"-", "1", "C", " ", "-", " ", "6", "0", ":", "0", "0">>}]}

\* a template and a tracklist of at most MaxTimeLines of its lines
InitTimes ==
    /\ \E c \in TimeCases :
           /\ template = c.tpl
           /\ text \in {Join(ls, <<"\n">>) :
                           ls \in UNION {[1..n -> c.lines] : n \in 0..MaxTimeLines}}
    /\ line_number = 0
    /\ validation = None
    /\ parsed = None
    /\ strict = None
    /\ preview = None
    /\ NoSession
    /\ NoSplit

NextTimes ==
    \/ ParseTracklistWithTemplate
    \/ PreviewParse

SpecTimes == InitTimes /\ [][NextTimes]_vars

\* ------------------------------------------------------------------------
\* The submission flows: qml_backend.py, and ui/widgets/tracklist_input.py
\* with ui/main_window.py
\* ------------------------------------------------------------------------
\* self._template or DEFAULT_TEMPLATE
TemplateOrDefault(t) == IF t = <<>> THEN DEFAULT_TEMPLATE ELSE t

\* v.error or "Invalid template"
ErrorOrInvalid(v) ==
    IF IsNone(v.error) \/ Get(v.error) = <<>> THEN <<"Invalid template">>
    ELSE Get(v.error)

\* one call of a parser function: its arguments and what it left
Call(fn, args, result) == [fn |-> fn, args |-> args, result |-> result]

\* what a handler leaves: the error texts, the calls of the parser functions
\* it made, and the tracks of the job it started (None when it started none)
Outcome(errors, calls, started) ==
    [shown |-> errors, calls |-> calls, job |-> started]

\* the template field and the tracklist field as the user may leave them
SessionTemplates == {<<>>, DEFAULT_TEMPLATE, T_MISSING}

SessionTexts == {<<>>, L_A, L_SEC}

\* what the URL checks of a submission find: nothing, or the error they show
UrlErrors ==
    {<<>>, <<"Please enter a valid YouTube URL">>,
     <<"Please wait for video info to load">>}

\* what the output directory check of a submission finds
DirErrors == {<<>>, <<"Please select an output directory">>}

\* Backend.startPipeline
startPipeline(errors, template_field, tracklist_text, url_error, dir_error) ==
    With([errors EXCEPT !.url_error = <<>>, !.dir_error = <<>>], LAMBDA cleared :
    With(TemplateOrDefault(template_field), LAMBDA tpl :
    IF url_error # <<>>
    THEN Outcome([cleared EXCEPT !.url_error = url_error], {}, None)
    ELSE
    With(validate_template(tpl), LAMBDA tv :
    With(Call("validate_template", <<tpl>>, tv), LAMBDA vcall :
    IF tv.raised # ""
    THEN Outcome(cleared, {vcall}, None)
    ELSE IF ~tv.is_valid
    THEN Outcome([cleared EXCEPT !.template_error =
                                     <<"Invalid template: ">> \o Get(tv.error)],
                 {vcall}, None)
    ELSE IF Strip(tracklist_text) = <<>>
    THEN Outcome(cleared, {vcall}, None)
    ELSE
    With(parse_tracklist_with_template(tracklist_text, tpl), LAMBDA r :
    With(Call("parse_tracklist_with_template", <<tracklist_text, tpl>>, r),
         LAMBDA pcall :
    \* except ParseError: return
    IF r.raised # "" \/ r.tracks = <<>>
    THEN Outcome(cleared, {vcall, pcall}, None)
    ELSE IF dir_error # <<>>
    THEN Outcome([cleared EXCEPT !.dir_error = dir_error], {vcall, pcall}, None)
    ELSE Outcome(cleared, {vcall, pcall}, Some(r.tracks))))))))

\* TracklistInput.validate: the pair (is_valid, error_message), the exception
\* that left it if one did, and the calls it made
TracklistInputValidate(template_field, tracklist_text) ==
    With(TemplateOrDefault(template_field), LAMBDA tpl :
    With(validate_template(tpl), LAMBDA tv :
    With(Call("validate_template", <<tpl>>, tv), LAMBDA vcall :
    IF tv.raised # ""
    THEN [ok |-> FALSE, raised |-> tv.raised, message |-> <<>>, calls |-> {vcall}]
    ELSE IF ~tv.is_valid
    THEN [ok |-> FALSE, raised |-> "",
          message |-> <<"Invalid template: ">> \o Get(tv.error),
          calls |-> {vcall}]
    ELSE IF Strip(tracklist_text) = <<>>
    THEN [ok |-> FALSE, raised |-> "",
          message |-> <<"Please enter at least one track">>, calls |-> {vcall}]
    ELSE
    With(parse_tracklist_with_template(tracklist_text, tpl), LAMBDA r :
    With(Call("parse_tracklist_with_template", <<tracklist_text, tpl>>, r),
         LAMBDA pcall :
    IF r.raised = "ParseError"
    THEN [ok |-> FALSE, raised |-> "", message |-> r.message,
          calls |-> {vcall, pcall}]
    ELSE IF r.raised # ""
    THEN [ok |-> FALSE, raised |-> r.raised, message |-> <<>>,
          calls |-> {vcall, pcall}]
    ELSE IF r.tracks = <<>>
    THEN [ok |-> FALSE, raised |-> "", message |-> <<"No valid tracks found">>,
          calls |-> {vcall, pcall}]
    ELSE [ok |-> TRUE, raised |-> "", message |-> <<>>, calls |-> {vcall, pcall}])))))

\* MainWindow._on_start_clicked
_on_start_clicked(errors, template_field, tracklist_text, url_error, dir_error) ==
    With([errors EXCEPT !.url_error = <<>>, !.tracklist_error = <<>>,
                        !.dir_error = <<>>], LAMBDA cleared :
    IF url_error # <<>>
    THEN Outcome([cleared EXCEPT !.url_error = url_error], {}, None)
    ELSE
    With(TracklistInputValidate(template_field, tracklist_text), LAMBDA tracks_valid :
    IF tracks_valid.raised # ""
    THEN Outcome(cleared, tracks_valid.calls, None)
    ELSE IF ~tracks_valid.ok
    THEN Outcome([cleared EXCEPT !.tracklist_error = tracks_valid.message],
                 tracks_valid.calls, None)
    ELSE IF dir_error # <<>>
    THEN Outcome([cleared EXCEPT !.dir_error = dir_error], tracks_valid.calls, None)
    ELSE
    \* the second call, with get_text() and get_template()
    With(parse_tracklist_with_template(tracklist_text,
                                       TemplateOrDefault(template_field)),
         LAMBDA tracks :
    With(Call("parse_tracklist_with_template",
              <<tracklist_text, TemplateOrDefault(template_field)>>, tracks),
         LAMBDA call :
    IF tracks.raised # ""
    THEN Outcome(cleared, tracks_valid.calls \cup {call}, None)
    ELSE Outcome(cleared, tracks_valid.calls \cup {call}, Some(tracks.tracks))))))

\* the window after construction: the default template in the template
\* field, no tracklist text, nothing shown, no job
InitSession ==
    /\ flow \in {"widget", "qml"}
    /\ template = DEFAULT_TEMPLATE
    /\ text = <<>>
    /\ line_number = 0
    /\ validation = None
    /\ parsed = None
    /\ strict = None
    /\ preview = None
    /\ shown = NoErrors
    /\ job = None
    /\ last_calls = {}
    /\ probe = None
    /\ NoSplit

\* what the template handlers leave when the template field becomes t: the
\* validation, the error texts, the preview, and the calls made
TemplateChange(errors, old_preview, t, tracklist_text) ==
    With(validate_template(t), LAMBDA v :
    IF v.raised # ""
    THEN [validation |-> Some(v), shown |-> errors, preview |-> old_preview,
          calls |-> {Call("validate_template", <<t>>, v)}]
    ELSE
    With(preview_parse(tracklist_text, TemplateOrDefault(t)), LAMBDA p :
    [validation |-> Some(v),
     shown |-> [errors EXCEPT !.template_error =
                   IF v.is_valid THEN <<>> ELSE ErrorOrInvalid(v)],
     preview |-> Some(p),
     calls |-> {Call("validate_template", <<t>>, v),
                Call("preview_parse", <<tracklist_text, TemplateOrDefault(t)>>, p)}]))

\* Backend.setTemplate and TracklistInput._on_template_changed: the user
\* edits the template field; validation and preview are what the handler
\* shows of the template and of the tracklist
TemplateEdited ==
    /\ flow \in {"widget", "qml"}
    /\ job = None
    /\ \E t \in SessionTemplates :
           With(TemplateChange(shown, preview, t, text), LAMBDA o :
               /\ template' = t
               /\ validation' = o.validation
               /\ shown' = o.shown
               /\ preview' = o.preview
               /\ last_calls' = o.calls)
    /\ UNCHANGED <<text, line_number, parsed, strict, flow, job, splitVars>>

\* Backend.setTracklistText and TracklistInput._on_tracklist_changed: the
\* user edits the tracklist field
TracklistEdited ==
    /\ flow \in {"widget", "qml"}
    /\ job = None
    /\ \E x \in SessionTexts :
           With(preview_parse(x, TemplateOrDefault(template)), LAMBDA p :
               /\ text' = x
               /\ preview' = Some(p)
               /\ last_calls' =
                      {Call("preview_parse", <<x, TemplateOrDefault(template)>>, p)})
    /\ UNCHANGED <<template, line_number, validation, parsed, strict, flow, shown,
                   job, splitVars>>

\* the outcome o of a submission becomes the state; the validation and the
\* tracks of a submission are locals of its handler
Submitted(o) ==
    /\ shown' = o.shown
    /\ last_calls' = o.calls
    /\ job' = o.job
    /\ UNCHANGED <<template, text, line_number, validation, parsed, strict, preview,
                   flow, splitVars>>

\* the user presses Start in the QML window
StartPressedQml(url_errors, dir_errors) ==
    /\ flow = "qml"
    /\ job = None
    /\ \E url_error \in url_errors, dir_error \in dir_errors :
           Submitted(startPipeline(shown, template, text, url_error, dir_error))

\* the user presses Start in the widget window
StartPressedWidget(url_errors, dir_errors) ==
    /\ flow = "widget"
    /\ job = None
    /\ \E url_error \in url_errors, dir_error \in dir_errors :
           Submitted(_on_start_clicked(shown, template, text, url_error, dir_error))

\* the submissions, whatever the URL and directory checks find
SetTemplate == TemplateEdited /\ UNCHANGED probe

SetTracklistText == TracklistEdited /\ UNCHANGED probe

StartPipeline == StartPressedQml(UrlErrors, DirErrors) /\ UNCHANGED probe

OnStartClicked == StartPressedWidget(UrlErrors, DirErrors) /\ UNCHANGED probe

NextSubmit ==
    \/ SetTemplate
    \/ SetTracklistText
    \/ StartPipeline
    \/ OnStartClicked

SpecSubmit == InitSession /\ [][NextSubmit]_vars

\* the same handlers with a valid URL and output directory, and with one
\* call of an earlier handler kept for comparison with later calls: the
\* first call kept stays
KeepProbe == probe' \in {probe} \cup (IF probe = None THEN {Some(c) : c \in last_calls} ELSE {})

SetTemplateAfterCalls == TemplateEdited /\ KeepProbe

SetTracklistTextAfterCalls == TracklistEdited /\ KeepProbe

StartPipelineAfterCalls == StartPressedQml({<<>>}, {<<>>}) /\ KeepProbe

OnStartClickedAfterCalls == StartPressedWidget({<<>>}, {<<>>}) /\ KeepProbe

NextSession ==
    \/ SetTemplateAfterCalls
    \/ SetTracklistTextAfterCalls
    \/ StartPipelineAfterCalls
    \/ OnStartClickedAfterCalls

SpecSession == InitSession /\ [][NextSession]_vars

\* ------------------------------------------------------------------------
\* core/splitter.py: AudioSplitter.split
\* ------------------------------------------------------------------------
\* the greatest number of tracks handed to split
MaxSplitTracks == 3

\* INVALID_FILENAME_CHARS: [<>:"/\|?*\x00-\x1f], of the control characters
\* those a name read from a line can hold
InvalidFilenameChars == {"<", ">", ":", "\"", "/", "\\", "|", "?", "*", "\t", "\r", "\f"}

\* s.strip(". ")
StripDotsAndSpaces(s) ==
    With({i \in 1..Len(s) : s[i] \notin {".", " "}}, LAMBDA keep :
        IF keep = {} THEN <<>>
        ELSE SubSeq(s, CHOOSE i \in keep : \A j \in keep : i <= j,
                       CHOOSE i \in keep : \A j \in keep : j <= i))

\* utils/validators.py
sanitize_filename(name) ==
    With(StripDotsAndSpaces(
             AsTuple([i \in 1..Len(name) |->
                 IF name[i] \in InvalidFilenameChars THEN "_" ELSE name[i]])),
         LAMBDA sanitized :
        IF sanitized = <<>> THEN <<"u", "n", "t", "i", "t", "l", "e", "d">>
        ELSE sanitized)

\* utils/time_utils.py, for a whole number of seconds:
\* f"{hours:02d}:{minutes:02d}:{secs:06.3f}"
format_seconds_to_timestamp(seconds) ==
    Fmt02d(seconds \div 3600) \o <<":">> \o Fmt02d((seconds % 3600) \div 60)
    \o <<":">> \o Fmt02d(seconds % 60) \o <<".", "0", "0", "0">>

\* f"{i:02d} - {safe_name}.{audio_format}" with the default format
OutputFile(i, track) ==
    Fmt02d(i) \o <<" ", "-", " ">> \o sanitize_filename(track.name)
    \o <<".", "m", "p", "3">>

\* FfmpegCommand that never limits the duration
FfmpegCommandWithoutLimit(track, output_file) ==
    [ss |-> format_seconds_to_timestamp(track.start_seconds),
     t  |-> None,
     output_file |-> output_file]

\* the arguments _run_ffmpeg builds: -ss, -t when the track has a duration,
\* and the output file
FfmpegCommand(track, output_file) ==
    [ss |-> format_seconds_to_timestamp(track.start_seconds),
     t  |-> IF ~IsNone(duration(track))
            THEN Some(format_seconds_to_timestamp(Get(duration(track))))
            ELSE None,
     output_file |-> output_file]

\* how a run of ffmpeg ends: return code 0, another return code,
\* TimeoutExpired, or another SubprocessError
EncoderOutcomes == {"ok", "nonzero", "TimeoutExpired", "SubprocessError"}

\* what "ffmpeg -version" does in _check_ffmpeg: runs, is not found, or fails
CheckOutcomes == {"ok", "FileNotFoundError", "SubprocessError"}

\* the parsed lines the track lists come from: a name with a character no
\* file name may hold, a name of dots only, and a time above an hour
SplitParsed ==
    {ParsedTrack(<<"A">>, 0, 0, 30, 1),
     ParsedTrack(<<"B", "/", "C">>, 0, 3, 0, 2),
     ParsedTrack(<<".">>, 1, 1, 5, 3)}

\* the track lists of a job: what parse_tracklist_with_template builds from
\* at most MaxSplitTracks parsed lines
SplitTrackLists ==
    {BuildTracks(SortByTotalSeconds(ps)) :
        ps \in UNION {[1..n -> SplitParsed] : n \in 0..MaxSplitTracks}}

\* split has not been called yet on the tracks of the job
InitSplit ==
    /\ template = DEFAULT_TEMPLATE
    /\ text = <<>>
    /\ line_number = 0
    /\ validation = None
    /\ parsed = None
    /\ strict = None
    /\ preview = None
    /\ NoSession
    /\ split_tracks \in SplitTrackLists
    /\ split_status = "idle"
    /\ output_files = <<>>
    /\ commands = <<>>

\* split up to its loop: _check_ffmpeg, the input file check, mkdir
SplitCalled ==
    /\ split_status = "idle"
    /\ \E check \in CheckOutcomes, input_exists \in BOOLEAN :
           split_status' =
               IF check # "ok" THEN "FFmpegNotFoundError"
               ELSE IF ~input_exists THEN "SplitError"
               ELSE IF split_tracks = <<>> THEN "returned"
               ELSE "running"
    /\ UNCHANGED <<split_tracks, output_files, commands, parserVars, sessionVars>>

\* one pass of "for i, track in enumerate(tracks, 1)": _run_ffmpeg on the
\* next track, then the append; after the last track split returns
RunFfmpeg ==
    /\ split_status = "running"
    /\ \E outcome \in EncoderOutcomes :
           LET i == Len(output_files) + 1
               output_file == OutputFile(i, split_tracks[i])
           IN  /\ commands' = Append(commands,
                                     [cmd     |-> FfmpegCommand(split_tracks[i], output_file),
                                      outcome |-> outcome])
               /\ IF outcome = "ok"
                  THEN /\ output_files' = Append(output_files, output_file)
                       /\ split_status' = IF i = Len(split_tracks) THEN "returned"
                                          ELSE "running"
                  ELSE /\ split_status' = "SplitError"
                       /\ UNCHANGED output_files
    /\ UNCHANGED <<split_tracks, parserVars, sessionVars>>

NextSplit ==
    \/ SplitCalled
    \/ RunFfmpeg

SpecSplit == InitSplit /\ [][NextSplit]_vars

\* ------------------------------------------------------------------------
\* Vocabulary of the properties
\* ------------------------------------------------------------------------
\* validate_template returns is_valid = true for the template
Accepted(tpl) ==
    LET v == validate_template(tpl) IN v.raised = "" /\ v.is_valid

\* validate_template returns is_valid = false for the template
Rejected(tpl) ==
    LET v == validate_template(tpl) IN v.raised = "" /\ ~v.is_valid

\* the non-blank lines of a text in input order, each trimmed and with its
\* 1-based position in the text (every line counted, blank or not)
NonBlankLines(txt) ==
    LET ls == Split(txt, "\n")
    IN  SelectSeq(AsTuple([i \in 1..Len(ls) |-> [pos |-> i, line |-> Strip(ls[i])]]),
                  LAMBDA e : e.line # <<>>)

\* what parse_line makes of each non-blank line of the text
LineOutcomes(txt, tpl) ==
    LET nb == NonBlankLines(txt)
    IN  AsTuple([k \in 1..Len(nb) |-> parse_line(nb[k].line, tpl, nb[k].pos)])

\* the number n of a message "Line <n>: ..."
MessageLine(msg) == DigitsToInt(SubSeq(msg, 2, IndexOf(msg, ": ", 1) - 1), 0)

\* the text of a message "Line <n>: ..." after its prefix
MessageBody(msg) == SubSeq(msg, IndexOf(msg, ": ", 1) + 1, Len(msg))

\* the messages of a strict-mode failure: its newline-separated pieces
Messages(r) == Split(r.message, "\n")

StrictReturned == strict # None /\ Get(strict).raised = ""

PreviewReturned == preview # None /\ Get(preview).raised = ""

\* ------------------------------------------------------------------------
\* Properties
\* ------------------------------------------------------------------------
\* C1: for a valid template and a text whose non-blank lines all parse,
\* parse_tracklist_with_template returns the tracks in ascending order of
\* start_seconds whatever the order of the lines, and the tracks are exactly
\* the lines' (name, start time) pairs rearranged: each track keeps the name
\* that stood on the line of its start time.
C1_SortedByStartTime ==
    (strict # None /\ Accepted(template)) =>
        LET out    == LineOutcomes(text, template)
            tracks == Get(strict).tracks
        IN  (out # <<>> /\ \A k \in 1..Len(out) : out[k].raised = "") =>
                /\ Get(strict).raised = ""
                /\ \A i, j \in 1..Len(tracks) :
                       i < j => tracks[i].start_seconds <= tracks[j].start_seconds
                /\ Len(tracks) = Len(out)
                /\ \E p \in Permutations(1..Len(out)) :
                       \A k \in 1..Len(out) :
                           /\ tracks[k].name = out[p[k]].name
                           /\ tracks[k].start_seconds = total_seconds(out[p[k]])

\* C1 witness: the later track stands on the first line, and is returned second
C1_Witness ==
    /\ StrictReturned
    /\ text = L_B \o <<"\n">> \o L_A
    /\ Len(Get(strict).tracks) = 2
    /\ Get(strict).tracks[1].name = <<"A">>
    /\ Get(strict).tracks[2].name = <<"B">>

\* C2: in every returned track list, each track but the last ends where the
\* next one starts, and the last track (so also a single track) has no end.
C2_EndTimesChained ==
    StrictReturned =>
        LET tracks == Get(strict).tracks
            n      == Len(tracks)
        IN  /\ n >= 1
            /\ \A i \in 1..(n - 1) :
                   tracks[i].end_seconds = Some(tracks[i + 1].start_seconds)
            /\ tracks[n].end_seconds = None

\* C2 witness: a returned list of three tracks
C2_Witness ==
    /\ StrictReturned
    /\ Len(Get(strict).tracks) = 3
    /\ Get(strict).tracks[1].start_seconds < Get(strict).tracks[2].start_seconds

\* C3: in strict mode, when k >= 1 non-blank lines fail, the one ParseError
\* raised holds exactly k newline-joined messages, one per failing line in the
\* order of the lines, each with its own "Line <n>:" prefix.
C3_AllFailuresReported ==
    (strict # None /\ Accepted(template) /\ Strip(text) # <<>>) =>
        LET out     == LineOutcomes(text, template)
            failing == SelectSeq(out, LAMBDA r : r.raised # "")
            msgs    == Messages(Get(strict))
        IN  failing # <<>> =>
                /\ Get(strict).raised = "ParseError"
                /\ Len(msgs) = Len(failing)
                /\ \A k \in 1..Len(failing) :
                       /\ msgs[k][1] = "Line "
                       /\ IndexOf(msgs[k], ": ", 1) > 2
                       /\ MessageBody(msgs[k]) = MessageBody(failing[k].message)
                /\ \A j, k \in 1..Len(failing) :
                       j < k => MessageLine(msgs[j]) < MessageLine(msgs[k])

\* C3 witness: a failure that reports two lines failing for different reasons
C3_Witness ==
    /\ strict # None
    /\ Get(strict).raised = "ParseError"
    /\ template = DEFAULT_TEMPLATE
    /\ Len(Messages(Get(strict))) = 2
    /\ MessageBody(Messages(Get(strict))[1]) # MessageBody(Messages(Get(strict))[2])

\* C4: strict mode is all-or-nothing: with a valid template and non-blank
\* text, a track list is returned iff every non-blank line parses, and then it
\* holds one Track per non-blank line; if any line fails the call fails with
\* no tracks, even when other lines parsed.
C4_AllOrNothing ==
    (strict # None /\ Accepted(template) /\ Strip(text) # <<>>) =>
        LET out == LineOutcomes(text, template)
            r   == Get(strict)
        IN  /\ (r.raised = "") <=> (\A k \in 1..Len(out) : out[k].raised = "")
            /\ r.raised = "" => Len(r.tracks) = Len(out) /\ Len(out) >= 1
            /\ r.raised # "" => r.raised = "ParseError" /\ r.tracks = <<>>

\* C4 witness: the call failed although one of the lines parsed
C4_Witness ==
    /\ strict # None
    /\ Get(strict).raised = "ParseError"
    /\ text = L_A \o <<"\n">> \o L_SEC
    /\ template = DEFAULT_TEMPLATE
    /\ parse_line(L_A, template, 1).raised = ""

\* C5: in both modes the line number attached to a non-blank line (the
\* "Line <n>" of its error, the line_number of its preview entry) is the
\* line's 1-based position in the input text with every blank line counted,
\* blank lines before the first non-blank line included.
C5_LineNumbersArePositions ==
    /\ (PreviewReturned /\ Accepted(template)) =>
           LET nb == NonBlankLines(text)
               tr == Get(preview).tracks
           IN  /\ Len(tr) = Len(nb)
               /\ \A k \in 1..Len(nb) : tr[k].line_number = nb[k].pos
    /\ (strict # None /\ Accepted(template) /\ Strip(text) # <<>>
            /\ Get(strict).raised = "ParseError") =>
           LET failing == SelectSeq(LineOutcomes(text, template), LAMBDA r : r.raised # "")
               msgs    == Messages(Get(strict))
           IN  /\ Len(msgs) = Len(failing)
               /\ \A k \in 1..Len(failing) :
                      MessageLine(msgs[k]) = MessageLine(failing[k].message)

\* C6 as stated: every returned preview has is_valid true iff
\* error_count = 0 and total_lines > 0.
C6_ValidIffNoErrorsAndSomeLine ==
    PreviewReturned =>
        LET r == Get(preview)
        IN  r.is_valid <=> (r.error_count = 0 /\ r.total_lines > 0)

\* C6 (amended): every returned preview has is_valid true iff error_count = 0
\* and either total_lines > 0 or the text is empty or whitespace-only.
C6_ValidIffNoErrorsAndLineOrEmptyText ==
    PreviewReturned =>
        LET r == Get(preview)
        IN  r.is_valid <=> (r.error_count = 0 /\ (r.total_lines > 0 \/ Strip(text) = <<>>))

\* C6 witness: a valid preview that counts no line
C6_Witness ==
    /\ PreviewReturned
    /\ Get(preview).is_valid
    /\ Get(preview).total_lines = 0

\* C7: with a valid template, the preview of empty or whitespace-only text has
\* no tracks, is_valid = true, error_count = 0 and total_lines = 0, whereas
\* strict mode fails on the same input.
C7_EmptyTextPreviewIsValid ==
    /\ (preview # None /\ Strip(text) = <<>> /\ Accepted(template)) =>
           /\ Get(preview).raised = ""
           /\ Get(preview).tracks = <<>>
           /\ Get(preview).is_valid
           /\ Get(preview).error_count = 0
           /\ Get(preview).total_lines = 0
    /\ (strict # None /\ Strip(text) = <<>> /\ Accepted(template)) =>
           Get(strict).raised = "ParseError"

\* C7 witness: the preview of a text made of blank lines only
C7_Witness ==
    /\ PreviewReturned
    /\ template = DEFAULT_TEMPLATE
    /\ text # <<>>
    /\ Strip(text) = <<>>

\* C8: with a template that validate_template rejects, the preview of any
\* text has no tracks, is_valid = false, error_count = 1 and total_lines = 0:
\* no line of the text is looked at.
C8_RejectedTemplatePreview ==
    (preview # None /\ Rejected(template)) =>
        /\ Get(preview).raised = ""
        /\ Get(preview).tracks = <<>>
        /\ ~Get(preview).is_valid
        /\ Get(preview).error_count = 1
        /\ Get(preview).total_lines = 0

\* C8 witness: a rejected template previewed on a text with parsable lines
C8_Witness ==
    /\ PreviewReturned
    /\ template = T_MISSING
    /\ text = L_B \o <<"\n">> \o L_A

\* C9: preview_parse raises nothing, for every text and every template; and
\* for a template that validate_template accepts, parse_line raises nothing
\* but ParseError.
C9_PreviewNeverRaises ==
    /\ preview # None => Get(preview).raised = ""
    /\ (parsed # None /\ Accepted(template)) =>
           Get(parsed).raised \in {"", "ParseError"}

\* C10: with a valid template the preview has one entry per non-blank line,
\* in the order of the lines and not of the times: line_number is strictly
\* increasing along the entries, and the k-th entry describes the k-th
\* non-blank line.
C10_PreviewKeepsLineOrder ==
    (preview # None /\ Accepted(template)) =>
        LET nb  == NonBlankLines(text)
            out == LineOutcomes(text, template)
            tr  == Get(preview).tracks
        IN  /\ Get(preview).raised = ""
            /\ Len(tr) = Len(nb)
            /\ \A j, k \in 1..Len(tr) : j < k => tr[j].line_number < tr[k].line_number
            /\ \A k \in 1..Len(tr) :
                   /\ tr[k].is_valid <=> out[k].raised = ""
                   /\ tr[k].is_valid =>
                          tr[k].name = out[k].name /\ tr[k].timestamp = Timestamp(out[k])
                   /\ ~tr[k].is_valid => tr[k].name = TruncatedName(nb[k].line)

\* C10 witness: two valid entries whose times are in descending order
C10_Witness ==
    /\ PreviewReturned
    /\ Len(Get(preview).tracks) = 2
    /\ Get(preview).tracks[1].timestamp = <<"3", ":", "0", "0">>
    /\ Get(preview).tracks[2].timestamp = <<"0", ":", "3", "0">>

\* C11: with a valid template the returned preview counts its own entries:
\* total_lines is the number of non-blank lines of the text and the number of
\* entries, error_count is the number of entries that are not valid, and
\* each of those carries a non-empty error.
C11_PreviewCounts ==
    (PreviewReturned /\ Accepted(template)) =>
        LET r  == Get(preview)
            nb == NonBlankLines(text)
        IN  /\ r.total_lines = Len(nb)
            /\ r.total_lines = Len(r.tracks)
            /\ r.error_count =
                   Cardinality({k \in 1..Len(r.tracks) : ~r.tracks[k].is_valid})
            /\ \A k \in 1..Len(r.tracks) :
                   IF r.tracks[k].is_valid
                   THEN r.tracks[k].error = None
                   ELSE /\ r.tracks[k].error # None
                        /\ Get(r.tracks[k].error) # <<>>

\* C11 witness: a text of three lines, the middle one blank, with one valid
\* and one invalid entry: two lines counted, one error
C11_Witness ==
    /\ PreviewReturned
    /\ Len(Split(text, "\n")) = 3
    /\ Get(preview).total_lines = 2
    /\ Get(preview).error_count = 1
    /\ Get(preview).tracks[1].is_valid
    /\ ~Get(preview).tracks[2].is_valid

\* C12: strict and preview modes agree on a text with a non-blank line and a
\* valid template: the strict call fails iff the preview has error_count > 0
\* (and then is_valid is false), strict raising ParseError where the preview
\* returns; the messages of the strict failure are the errors of the invalid
\* preview entries, in the same order and with the same line numbers.
C12_StrictAgreesWithPreview ==
    (strict # None /\ Strip(text) # <<>> /\ Accepted(template)) =>
        With(preview_parse(text, template), LAMBDA p :
            LET s   == Get(strict)
                bad == SelectSeq(p.tracks, LAMBDA e : ~e.is_valid)
            IN  /\ p.raised = ""
                /\ s.raised \in {"", "ParseError"}
                /\ (s.raised = "ParseError") <=> (p.error_count > 0)
                /\ (p.error_count > 0) => ~p.is_valid
                /\ (s.raised = "ParseError") =>
                       /\ Len(Messages(s)) = Len(bad)
                       /\ \A k \in 1..Len(bad) :
                              /\ Messages(s)[k] = Get(bad[k].error)
                              /\ MessageLine(Messages(s)[k]) = bad[k].line_number)

\* C12 witness: a strict failure listing two lines of a text whose third
\* line parses
C12_Witness ==
    /\ strict # None
    /\ template = DEFAULT_TEMPLATE
    /\ Get(strict).raised = "ParseError"
    /\ Len(Messages(Get(strict))) = 2
    /\ preview_parse(text, template).total_lines = 3

\* the first piece of a validation's error message, which names the check
\* that failed
ErrorKind(v) == Head(Get(v.error))

ValidationReturned == validation # None /\ Get(validation).raised = ""

\* C13: validate_template applies its checks in the order empty template,
\* missing required placeholder, %ignore:...% inner regex, full pattern, and
\* the validation it returns reports the first check that fails: "Template
\* cannot be empty" for an empty or blank template, the missing-placeholder
\* error when a required placeholder is absent even if an ignore regex is
\* bad too, the ignore-regex error ahead of the full-pattern error.
C13_ChecksInOrder ==
    ValidationReturned =>
        LET v         == Get(validation)
            lacking   == \E ph \in REQUIRED_PLACEHOLDERS : ~Contains(template, ph)
            ign       == IgnoreMatches(template)
            badIgnore == \E k \in 1..Len(ign) : ReCompile(ign[k].inner).err = "re.error"
        IN  IF Strip(template) = <<>>
            THEN ~v.is_valid /\ v.error = Some(<<"Template cannot be empty">>)
            ELSE IF lacking
            THEN ~v.is_valid /\ ErrorKind(v) = "Missing required placeholders: "
            ELSE IF badIgnore
            THEN ~v.is_valid /\ ErrorKind(v) = "Invalid regex in %ignore:"
            ELSE IF _compile_template(template).err = "re.error"
            THEN ~v.is_valid /\ ErrorKind(v) = "Invalid template pattern: "
            ELSE v.is_valid

\* C13 witness: a template that lacks required placeholders and holds an
\* ignore regex that does not compile, validated as lacking placeholders
C13_Witness ==
    /\ ValidationReturned
    /\ Contains(template, IGN_UNCLOSED)
    /\ Contains(template, PH_SONGNAME)
    /\ ~Contains(template, PH_SS)
    /\ ErrorKind(Get(validation)) = "Missing required placeholders: "

\* the required placeholders that do not occur in a template, in string
\* order: "%mm%" < "%songname%" < "%ss%"
ExpectedMissing(tpl) ==
    SelectSeq(<<PH_MM, PH_SONGNAME, PH_SS>>, LAMBDA ph : ~Contains(tpl, ph))

\* what validate_template reports for the missing placeholders ms
ReportsMissing(v, ms) ==
    /\ ~v.is_valid
    /\ v.missing_placeholders = ms
    /\ v.error = Some(<<"Missing required placeholders: ">> \o Join(ms, <<",", " ">>))

\* C14 as stated: for every non-empty template that lacks a required
\* placeholder, missing_placeholders is the sorted sequence of all the
\* required placeholders that do not occur in the template and the error
\* lists them comma-joined.
C14_AllMissingReported ==
    (ValidationReturned /\ template # <<>> /\ ExpectedMissing(template) # <<>>) =>
        ReportsMissing(Get(validation), ExpectedMissing(template))

\* C14 (amended): the same for every template that is neither empty nor
\* whitespace-only.
C14_AllMissingReportedUnlessBlank ==
    (ValidationReturned /\ Strip(template) # <<>> /\ ExpectedMissing(template) # <<>>) =>
        ReportsMissing(Get(validation), ExpectedMissing(template))

\* C14 witness: "%songname%" validated, both %mm% and %ss% reported
C14_Witness ==
    /\ ValidationReturned
    /\ template = PH_SONGNAME
    /\ Get(validation).missing_placeholders = <<PH_MM, PH_SS>>

\* C15: validate_template raises nothing: whatever the template, the call
\* returns a TemplateValidation.
C15_ValidateNeverRaises ==
    validation # None => Get(validation).raised = ""

\* C16: a returned TemplateValidation is consistent: valid means no error
\* and no missing placeholders; invalid means an error that is a non-empty
\* string; and missing_placeholders is non-empty only when the failed check
\* is the missing-placeholder one (empty for the empty-template, the
\* ignore-regex and the full-pattern failures).
C16_ValidationConsistent ==
    ValidationReturned =>
        LET v == Get(validation)
        IN  /\ v.is_valid => (v.error = None /\ v.missing_placeholders = <<>>)
            /\ ~v.is_valid => (v.error # None /\ Get(v.error) # <<>>)
            /\ (v.missing_placeholders # <<>>) <=>
                   (~v.is_valid /\ ErrorKind(v) = "Missing required placeholders: ")
            /\ (v.missing_placeholders # <<>>) =>
                   (Strip(template) # <<>> /\ ExpectedMissing(template) # <<>>)

\* C16 witness: a full-pattern failure (a placeholder used twice) with no
\* missing placeholders
C16_Witness ==
    /\ ValidationReturned
    /\ ~Get(validation).is_valid
    /\ ErrorKind(Get(validation)) = "Invalid template pattern: "
    /\ Get(validation).missing_placeholders = <<>>
    /\ ~Contains(template, IGN_DIGITS)

\* what the compiled template captures on a line: whether the trimmed line
\* matches, and then the trimmed song name and the texts of the time groups
\* (hh empty when the pattern has no such group or it took no part)
LineFields(line, tpl) ==
    With(_compile_template(tpl), LAMBDA pat :
    With(ReMatch(pat.nodes, Strip(line)), LAMBDA m :
        IF IsNone(m)
        THEN [matched |-> FALSE, name |-> <<>>, hh |-> <<>>, mm |-> <<>>, ss |-> <<>>]
        ELSE [matched |-> TRUE,
              name    |-> Strip(Get(Group(Get(m), GROUP_SONGNAME))),
              hh      |-> IF InSeq(GROUP_HH, pat.names) /\ ~IsNone(Group(Get(m), GROUP_HH))
                          THEN Get(Group(Get(m), GROUP_HH)) ELSE <<>>,
              mm      |-> Get(Group(Get(m), GROUP_MM)),
              ss      |-> Get(Group(Get(m), GROUP_SS))]))

\* the checks of parse_line that come before the seconds check pass
ReachesSecondsCheck(f) ==
    f.matched /\ f.name # <<>> /\ (f.hh = <<>> \/ ~IntRaises(f.hh))

LineReturned == parsed # None /\ Get(parsed).raised = ""

LineFailed == parsed # None /\ Get(parsed).raised = "ParseError"

\* the message "Line <n>: Seconds must be less than 60 (got <seconds>)"
SecondsMessage(n, seconds) ==
    <<"Line ">> \o IntToStr(n) \o <<": ", "Seconds must be less than 60 (got ">>
    \o IntToStr(seconds) \o <<")">>

\* C17: parse_line rejects a matching line whose seconds field is 60 or
\* more, with a ParseError that names the line number and the limit 60
\* (when no earlier check of the line failed first), accepts every seconds
\* field from 00 to 59 of a line that passes the earlier checks, and so
\* returns only ParsedTracks with 0 <= seconds <= 59.
C17_SecondsBelowSixty ==
    (parsed # None /\ Accepted(template)) =>
        With(LineFields(text, template), LAMBDA f :
            LET r == Get(parsed)
            IN  /\ r.raised = "" => (f.matched /\ r.seconds \in 0..59)
                /\ (f.matched /\ IntOf(f.ss) >= 60) =>
                       /\ r.raised = "ParseError"
                       /\ MessageLine(r.message) = line_number
                       /\ ReachesSecondsCheck(f) =>
                              r.message = SecondsMessage(line_number, IntOf(f.ss))
                /\ (ReachesSecondsCheck(f) /\ IntOf(f.ss) <= 59) =>
                       /\ r.raised = ""
                       /\ r.seconds = IntOf(f.ss))

\* C17 witness: seconds 59 accepted
C17_Witness ==
    /\ LineReturned
    /\ Get(parsed).seconds = 59
    /\ template = DEFAULT_TEMPLATE

\* C18: for a valid template parse_line either returns or raises a
\* ParseError; the ParseError's message starts with "Line <n>:" for the line
\* number n passed and tells which check failed (no match, empty song name,
\* a time field that is no integer, seconds >= 60); a returned ParsedTrack
\* has the trimmed, non-empty song name and the line number passed.
C18_FailuresCarryLineNumber ==
    (parsed # None /\ Accepted(template)) =>
        With(LineFields(text, template), LAMBDA f :
            LET r == Get(parsed)
            IN  /\ r.raised \in {"", "ParseError"}
                /\ r.raised = "ParseError" =>
                       /\ Head(r.message) = "Line "
                       /\ MessageLine(r.message) = line_number
                       /\ MessageBody(r.message) =
                              IF ~f.matched THEN <<"Does not match template format">>
                              ELSE IF f.name = <<>> THEN <<"Song name is empty">>
                              ELSE IF f.hh # <<>> /\ IntRaises(f.hh)
                              THEN <<"Invalid time format">>
                              ELSE <<"Seconds must be less than 60 (got ">>
                                   \o IntToStr(IntOf(f.ss)) \o <<")">>
                /\ r.raised = "" =>
                       /\ r.name # <<>>
                       /\ r.name = Strip(r.name)
                       /\ r.name = f.name
                       /\ r.line_number = line_number)

\* C18 witness: the song name is blank on line 2
C18_Witness ==
    /\ LineFailed
    /\ line_number = 2
    /\ MessageBody(Get(parsed).message) = <<"Song name is empty">>

\* C19: parse_line puts no upper limit on minutes: a line that passes the
\* checks before the seconds check is rejected only for seconds >= 60, and
\* is returned with the minutes as written, 60 or more included, whether or
\* not the template has %hh%.
C19_MinutesUnbounded ==
    (parsed # None /\ Accepted(template)) =>
        With(LineFields(text, template), LAMBDA f :
            LET r == Get(parsed)
            IN  ReachesSecondsCheck(f) =>
                    /\ (r.raised = "") <=> (IntOf(f.ss) < 60)
                    /\ r.raised = "" => r.minutes = IntOf(f.mm))

\* C19 witness: 120 minutes returned, by a template with %hh%
C19_Witness ==
    /\ LineReturned
    /\ Contains(template, PH_HH)
    /\ Get(parsed).minutes = 120

\* C20: a returned ParsedTrack has hours 0 when the template has no %hh%
\* placeholder and the captured hours otherwise; total_seconds is
\* hours*3600 + minutes*60 + seconds, and the Track that strict mode builds
\* from the line starts at that total.
C20_HoursDefaultAndTotal ==
    /\ LineReturned =>
           With(LineFields(text, template), LAMBDA f :
               LET r == Get(parsed)
               IN  /\ ~Contains(template, PH_HH) => r.hours = 0
                   /\ Contains(template, PH_HH) => r.hours = IntOf(f.hh)
                   /\ total_seconds(r) = r.hours * 3600 + r.minutes * 60 + r.seconds)
    /\ StrictReturned =>
           With(parse_line(text, template, 1), LAMBDA r :
               /\ Len(Get(strict).tracks) = 1
               /\ Get(strict).tracks[1].start_seconds
                      = r.hours * 3600 + r.minutes * 60 + r.seconds)

\* C21: strict mode looks at the template, then at the text, then at the
\* lines: a template that validate_template rejects makes the call fail
\* with "Invalid template: " followed by the validator's message, whatever
\* the text is, empty text included; with a valid template, empty or
\* whitespace-only text makes it fail with "Tracklist is empty".
C21_TemplateThenText ==
    strict # None =>
        With(validate_template(template), LAMBDA v :
            /\ (v.raised = "" /\ ~v.is_valid) =>
                   /\ Get(strict).raised = "ParseError"
                   /\ Get(strict).message = <<"Invalid template: ">> \o Get(v.error)
            /\ (v.raised = "" /\ v.is_valid /\ Strip(text) = <<>>) =>
                   /\ Get(strict).raised = "ParseError"
                   /\ Get(strict).message = <<"Tracklist is empty">>)

\* C21 witness: a rejected template with empty text, reported as an invalid
\* template
C21_Witness ==
    /\ strict # None
    /\ text = <<>>
    /\ template = T_MISSING
    /\ Head(Get(strict).message) = "Invalid template: "

\* every line of the text is blank
AllLinesBlank(txt) == \A i \in 1..Len(Split(txt, "\n")) : IsBlankStr(Split(txt, "\n")[i])

\* C22 as stated: with a valid template, a text whose lines are all blank
\* makes strict mode fail with "No valid tracks found in tracklist".
C22_AllBlankIsNoValidTracks ==
    (strict # None /\ AllLinesBlank(text) /\ Accepted(template)) =>
        /\ Get(strict).raised = "ParseError"
        /\ Get(strict).message = <<"No valid tracks found in tracklist">>

\* C22 (amended): with a valid template, a text whose lines are all blank
\* makes strict mode fail with "Tracklist is empty", and no call with a
\* valid template fails with "No valid tracks found in tracklist".
C22_AllBlankIsEmptyTracklist ==
    (strict # None /\ Accepted(template)) =>
        /\ AllLinesBlank(text) =>
               /\ Get(strict).raised = "ParseError"
               /\ Get(strict).message = <<"Tracklist is empty">>
        /\ Get(strict).message # <<"No valid tracks found in tracklist">>

\* C22 witness: a strict failure on a text of two blank lines
C22_Witness ==
    /\ strict # None
    /\ text = <<"\n">>
    /\ template = DEFAULT_TEMPLATE
    /\ Get(strict).raised = "ParseError"

\* the line is, from position pos on, the rest of the template from index i
\* on: its literal characters verbatim, a song name of one or more
\* characters, hours of 1-2 digits, minutes of 1-3 digits, seconds of 2 digits
RECURSIVE Fits(_, _, _, _)
Fits(tpl, i, s, pos) ==
    IF i > Len(tpl) THEN pos = Len(s) + 1
    ELSE IF OccursAt(tpl, PH_SONGNAME, i)
    THEN \E n \in 1..(Len(s) - pos + 1) : Fits(tpl, i + Len(PH_SONGNAME), s, pos + n)
    ELSE IF OccursAt(tpl, PH_HH, i)
    THEN \E n \in 1..2 :
             /\ pos + n - 1 <= Len(s)
             /\ \A k \in pos..(pos + n - 1) : IsDigit(s[k])
             /\ Fits(tpl, i + Len(PH_HH), s, pos + n)
    ELSE IF OccursAt(tpl, PH_MM, i)
    THEN \E n \in 1..3 :
             /\ pos + n - 1 <= Len(s)
             /\ \A k \in pos..(pos + n - 1) : IsDigit(s[k])
             /\ Fits(tpl, i + Len(PH_MM), s, pos + n)
    ELSE IF OccursAt(tpl, PH_SS, i)
    THEN /\ pos + 1 <= Len(s)
         /\ IsDigit(s[pos]) /\ IsDigit(s[pos + 1])
         /\ Fits(tpl, i + Len(PH_SS), s, pos + 2)
    ELSE /\ pos <= Len(s)
         /\ s[pos] = tpl[i]
         /\ Fits(tpl, i + 1, s, pos + 1)

\* parse_line failed because the line does not match the template
NoMatch(r) ==
    /\ r.raised = "ParseError"
    /\ r.message[Len(r.message)] = "Does not match template format"

\* C24: under a template without ignore tokens, parse_line finds a trimmed
\* line matching exactly when the whole line is the template's literal
\* characters verbatim, in order, with a song name of one or more characters,
\* hours of 1-2 digits, minutes of 1-3 digits and seconds of 2 digits where
\* the placeholders stand: [ ] ( ) | . of the template stand for themselves,
\* and text before or after the layout makes the line fail unless a
\* placeholder takes it in.
C24_WholeLineLiteralLayout ==
    parsed # None =>
        /\ Get(parsed).raised \in {"", "ParseError"}
        /\ NoMatch(Get(parsed)) <=> ~Fits(template, 1, Strip(text), 1)

\* a decorated template matched a line of its layout, and the same
\* template's layout with a letter for its decoration is among the lines
C24_Witness ==
    /\ parsed # None
    /\ template = T_PAREN
    /\ text = <<"A", " ", "(", "3", ".", "4", "5", ")">>
    /\ Get(parsed).raised = ""
    /\ Get(parsed).name = <<"A">>
    /\ Get(parsed).minutes = 3
    /\ Get(parsed).seconds = 45
    /\ <<"A", " ", "x", "3", "x", "4", "5", ")">> \in LayoutLines

\* C25: every %ignore:<regex>% occurrence of the template stands in the
\* compiled pattern as the non-capturing group (?:<regex>) with <regex> as
\* written, no "%ignore:" is left in the pattern as literal text, and under
\* '%ignore:\d+\.% %songname% - %mm%:%ss%' the line '1. My Song - 3:45'
\* gives the name 'My Song', 3 minutes and 45 seconds.
C25_IgnoreTokensBecomeGroups ==
    parsed # None =>
        /\ \A k \in 1..Len(IgnoreMatches(template)) :
               Contains(PatternText(template),
                        <<"(", "?", ":">> \o IgnoreMatches(template)[k].inner \o <<")">>)
        /\ ~Contains(PatternText(template),
                     <<"%", "i", "g", "n", "o", "r", "e", ":">>)
        /\ (/\ template = T_NUMBERED_SPACE
            /\ text = <<"1", ".", " ", "M", "y", " ", "S", "o", "n", "g", " ", "-", " ", "3", ":", "4", "5">>)
           => /\ Get(parsed).raised = ""
              /\ Get(parsed).name = <<"M", "y", " ", "S", "o", "n", "g">>
              /\ Get(parsed).minutes = 3
              /\ Get(parsed).seconds = 45

\* the text p is exactly two digits that read as the number v
TwoDigits(p, v) ==
    Len(p) = 2 /\ IsDigit(p[1]) /\ IsDigit(p[2]) /\ DigitsToInt(p, 0) = v

\* C26: in a preview under a valid template, the timestamp of a valid entry
\* is H:MM:SS (hours as written without padding, minutes and seconds two
\* digits each) when the line's hours are above 0 and M:SS (minutes without
\* padding, seconds two digits) when they are 0, also under a template with
\* %hh%; the timestamp of an invalid entry is "--:--".
C26_TimestampFormat ==
    (preview # None /\ Accepted(template)) =>
        LET out == LineOutcomes(text, template)
            tr  == Get(preview).tracks
        IN  /\ Get(preview).raised = ""
            /\ Len(tr) = Len(out)
            /\ \A k \in 1..Len(tr) :
                   LET parts == Split(tr[k].timestamp, ":")
                   IN  /\ tr[k].is_valid <=> out[k].raised = ""
                       /\ ~tr[k].is_valid => tr[k].timestamp = <<"-", "-", ":", "-", "-">>
                       /\ (tr[k].is_valid /\ out[k].hours > 0) =>
                              /\ Len(parts) = 3
                              /\ parts[1] = IntToStr(out[k].hours)
                              /\ TwoDigits(parts[2], out[k].minutes)
                              /\ TwoDigits(parts[3], out[k].seconds)
                       /\ (tr[k].is_valid /\ out[k].hours = 0) =>
                              /\ Len(parts) = 2
                              /\ parts[1] = IntToStr(out[k].minutes)
                              /\ TwoDigits(parts[2], out[k].seconds)

\* C29: when parse_tracklist_with_template returns, the tracks that start at
\* the same time stand in the order of their lines in the text: for every
\* start time, the names of the returned tracks with that start are the
\* names of the lines with that time, in input order.
C29_StableSort ==
    StrictReturned =>
        LET out == LineOutcomes(text, template)
            tr  == Get(strict).tracks
        IN  /\ Len(tr) = Len(out)
            /\ \A k \in 1..Len(out) : out[k].raised = ""
            /\ \A v \in {tr[k].start_seconds : k \in 1..Len(tr)} :
                   LET tied  == SelectSeq(tr, LAMBDA t : t.start_seconds = v)
                       lines == SelectSeq(out, LAMBDA p : total_seconds(p) = v)
                   IN  /\ Len(tied) = Len(lines)
                       /\ \A k \in 1..Len(tied) : tied[k].name = lines[k].name

\* three tracks returned; the two that start at 3:00 keep the order of
\* their lines (B before E) though an earlier track stood between them
C29_Witness ==
    /\ StrictReturned
    /\ text = Join(<<<<"B", " ", "-", " ", "3", ":", "0", "0">>,
                     <<"A", " ", "-", " ", "0", ":", "3", "0">>,
                     <<"E", " ", "-", " ", "3", ":", "0", "0">>>>, <<"\n">>)
    /\ Len(Get(strict).tracks) = 3
    /\ Get(strict).tracks[1].name = <<"A">>
    /\ Get(strict).tracks[2].name = <<"B">>
    /\ Get(strict).tracks[3].name = <<"E">>
    /\ Get(strict).tracks[2].start_seconds = Get(strict).tracks[3].start_seconds

\* C30: every track parse_tracklist_with_template returns starts at 0 or
\* later and, when it has an end, ends no earlier than it starts, so its
\* duration is never negative; the duration is 0 exactly when the next track
\* starts at the same time, and only the last track has no duration.
C30_DurationsNotNegative ==
    StrictReturned =>
        LET tr == Get(strict).tracks
        IN  \A k \in 1..Len(tr) :
                /\ tr[k].start_seconds >= 0
                /\ IsNone(duration(tr[k])) <=> k = Len(tr)
                /\ k < Len(tr) =>
                       /\ Get(tr[k].end_seconds) >= tr[k].start_seconds
                       /\ Get(duration(tr[k])) >= 0
                       /\ Get(duration(tr[k])) = 0
                              <=> tr[k].start_seconds = tr[k + 1].start_seconds

\* the message stands in one of the error texts of the window, as it is or
\* after the words "Invalid template: "
IsShown(msg) ==
    \E f \in DOMAIN shown :
        /\ shown[f] # <<>>
        /\ shown[f] \in {msg, <<"Invalid template: ">> \o msg}

\* C27: in both windows, whenever the validate_template or the
\* parse_tracklist_with_template call of a handler fails, the failure
\* message is shown to the user and no job is started; a job is started only
\* after a successful validation and with the tracks the strict parse
\* returned for the tracklist and template of the fields.
C27_FailuresShownNoJob ==
    /\ \A c \in last_calls :
           /\ (c.fn = "validate_template" /\ (c.result.raised # "" \/ ~c.result.is_valid))
                  => /\ job = None
                     /\ c.result.raised = ""
                     /\ IsShown(Get(c.result.error))
           /\ (c.fn = "parse_tracklist_with_template" /\ c.result.raised # "")
                  => /\ job = None
                     /\ IsShown(c.result.message)
    /\ job # None =>
           \E v, p \in last_calls :
               /\ v.fn = "validate_template"
               /\ v.args = <<TemplateOrDefault(template)>>
               /\ v.result.raised = "" /\ v.result.is_valid
               /\ p.fn = "parse_tracklist_with_template"
               /\ p.args = <<text, TemplateOrDefault(template)>>
               /\ p.result.raised = ""
               /\ Get(job) = p.result.tracks

TimestampSeconds(ts) ==
    LET parts == Split(ts, ":")
    IN  DigitsToInt(parts[1], 0) * 3600 + DigitsToInt(parts[2], 0) * 60
        + DigitsToInt(SubSeq(parts[3], 1, Len(parts[3]) - 4), 0)

\* C28: split runs ffmpeg on the tracks in list order, the k-th command
\* cutting the k-th track from its start_seconds, with a duration limit of
\* end_seconds - start_seconds exactly when the track has an end; when split
\* returns, output_files has one file per track, the i-th numbered i; when a
\* run of ffmpeg fails, split raises SplitError and runs no further command.
C28_OneSegmentPerTrack ==
    /\ Len(commands) <= Len(split_tracks)
    /\ \A k \in 1..Len(commands) :
           LET track == split_tracks[k]
               cmd   == commands[k].cmd
           IN  /\ TimestampSeconds(cmd.ss) = track.start_seconds
               /\ IsNone(cmd.t) <=> IsNone(track.end_seconds)
               /\ ~IsNone(cmd.t) =>
                      TimestampSeconds(Get(cmd.t))
                          = Get(track.end_seconds) - track.start_seconds
               /\ DigitsToInt(SubSeq(cmd.output_file, 1, 2), 0) = k
               /\ IF commands[k].outcome = "ok"
                  THEN k <= Len(output_files) /\ output_files[k] = cmd.output_file
                  ELSE k = Len(commands) /\ split_status = "SplitError"
                       /\ Len(output_files) = k - 1
    /\ split_status = "returned" =>
           /\ Len(output_files) = Len(split_tracks)
           /\ Len(commands) = Len(split_tracks)
           /\ \A i \in 1..Len(output_files) :
                  /\ DigitsToInt(SubSeq(output_files[i], 1, 2), 0) = i
                  /\ SubSeq(output_files[i], 3, 5) = <<" ", "-", " ">>

\* split returned three files for three tracks, the last of them open-ended
\* and the first two with a duration limit
C28_Witness ==
    /\ split_status = "returned"
    /\ Len(split_tracks) = 3
    /\ Len(output_files) = 3
    /\ IsNone(commands[3].cmd.t)
    /\ ~IsNone(commands[1].cmd.t)
    /\ split_tracks[1].start_seconds < split_tracks[2].start_seconds

====
